---- MODULE Spec2Model ----
(***************************************************************************)
(* Quarantine & envelope-encryption lifecycle service of                   *)
(* clawexchange/security-pipeline, with the moderation workflow that       *)
(* drives it.  Every asynchronous handler is split at its awaits: one      *)
(* action per backend round trip, so that concurrent calls interleave      *)
(* exactly where the event loop lets them.  Every backend call may fail.   *)
(***************************************************************************)
EXTENDS Naturals, Integers, Sequences, FiniteSets, TLC

\* ------------------------------------------------------------- bounds
\* encrypt calls looked at in one behaviour of the crypto engine
MaxEncrypts == 2
\* requests the pipeline's middleware is given in one behaviour
MaxRequests == 2
\* check calls of the rate limiter in one behaviour
MaxChecks == 3
\* objects in the bucket, and deleteMany calls, when the storage client is looked at
\* on its own
MaxKeys == 2001
MaxDeletes == 2
\* Concurrent calls in flight.
MaxCalls == 2
\* store calls ever started (each draws at most one key id, one object key, one record id).
MaxStores == 2
\* Calls ever started.
MaxOps == 4
\* The clock runs 0..MaxTime.
MaxTime == 2
\* The configured TTL (expiryHours), in clock ticks.
ExpiryTicks == 1

\* ------------------------------------------------------------- constants
\* The TTL of a record, in hours, when the configuration names none.
DEFAULT_EXPIRY_HOURS == 72
\* AES-256-GCM: the bytes of a key, of an IV and of an authentication tag.
DEK_LENGTH == 32
IV_LENGTH == 12
AUTH_TAG_LENGTH == 16
ALGORITHM == "aes-256-gcm"
\* S3 DeleteObjects accepts at most this many keys per request.
batchSize == 1000

\* config.expiryHours ?? DEFAULT_EXPIRY_HOURS (configured: <<>> when undefined, <<h>>
\* when set)
ExpiryHoursOf(configured) ==
    IF configured = <<>> THEN DEFAULT_EXPIRY_HOURS ELSE configured[1]

Procs == 1..MaxCalls
Uuids == 1..MaxStores
\* An id no store call ever generates (randomUUID() of a caller that guesses).
UnknownId == MaxStores + 1
NULL == "NULL"
NoKey == <<>>

QuarantineStatus == {"QUARANTINED", "UNDER_REVIEW", "RELEASED", "DELETED", "EXPIRED"}
ActiveStatuses == {"QUARANTINED", "UNDER_REVIEW"}
Reviewers == {NULL, "admin-1"}
NoteTexts == {NULL, "note"}
\* What a caller of updateStatus passes as reviewedBy and reviewNotes, and the pair
\* that stands for all where the review fields of a row are not read (the service
\* only writes them: which blob, key row or status a step touches does not depend
\* on them).
ReviewInputs == Reviewers \X NoteTexts
LifecycleReviews == {<<"admin-1", "note">>}
LifecycleNotes == {"note"}

\* What a caller of store passes: the content (a string, as its code points) and the
\* metadata of the inspection.
StoreInputs ==
    << [content |-> <<104, 105>>, tier |-> "HIGH", labels |-> <<"SECRET_DETECTED", "AWS_KEY">>],
       [content |-> <<233, 8364>>, tier |-> "CRITICAL", labels |-> <<>>] >>
\* Every input of store, and the one that stands for all where neither the content
\* nor the metadata is read again (the lifecycle of a record does not depend on them).
AllInputs == 1..Len(StoreInputs)
LifecycleInputs == {1}
\* What a caller of generateSignedUrl passes as expirySeconds.
ExpirySecondsInputs == {60, 3600}

\* ------------------------------------------------------------- the crypto engine
\* A Buffer: len bytes.  body spells the bytes out (Len(body) = len) or, for bytes the
\* model does not spell out, names them (one number); flip is what has been added to
\* the first byte since.
Bytes(seq) == [len |-> Len(seq), body |-> seq, flip |-> 0]
Opaque(len, seed) == [len |-> len, body |-> <<seed>>, flip |-> 0]

\* randomBytes(len), the n-th draw: the draws never repeat.
RandomBytes(len, n) == Opaque(len, n)

\* A base64 string: its number of alphabet characters and what they spell.
\* Buffer.from(s, 'base64') yields 6 bits per character, whole bytes only.
Base64Decode(s) == [len |-> (s.chars * 6) \div 8, body |-> <<s.seed>>, flip |-> 0]

\* buffer.toString('base64')
Base64Encode(b) == [chars |-> (b.len * 8 + 5) \div 6, of |-> b]

\* One byte of a buffer is altered (an empty buffer gets a byte).
Tamper(b) ==
    IF b.len = 0 THEN Bytes(<<1>>) ELSE [b EXCEPT !.flip = (@ + 1) % 256]

\* AES-256-GCM as an ideal AEAD.  The ciphertext is the plaintext under the pad that
\* (key, iv) generate, as long as the plaintext; the tag authenticates (key, iv,
\* ciphertext) and no other triple has the same tag.
GcmCiphertext(key, iv, plaintext) ==
    [len |-> plaintext.len,
     pad |-> IF plaintext.len = 0 THEN <<>> ELSE <<key, iv>>, x |-> plaintext]

\* One byte of a ciphertext is altered.
TamperCiphertext(ciphertext) ==
    [ciphertext EXCEPT !.x = Tamper(@), !.len = Tamper(ciphertext.x).len]

GcmAuthTag_Unkeyed(key, iv, ciphertext) ==
    [len |-> AUTH_TAG_LENGTH, mac |-> <<iv>>, over |-> ciphertext, flip |-> 0]

GcmAuthTag(key, iv, ciphertext) ==
    [len |-> AUTH_TAG_LENGTH, mac |-> <<key, iv>>, over |-> ciphertext, flip |-> 0]

\* What a decipher makes of a ciphertext: the plaintext under the right pad, other
\* bytes under any other.
GcmPlaintext(key, iv, ciphertext) ==
    IF ciphertext.len = 0 \/ ciphertext.pad = <<key, iv>>
    THEN ciphertext.x
    ELSE [ciphertext.x EXCEPT !.flip = (@ + 128) % 256]

DecryptionFailed == [ok |-> FALSE, data |-> Bytes(<<>>)]

\* createDecipheriv, setAuthTag, update, final: final throws unless the tag is the
\* one of (key, iv, ciphertext); createDecipheriv throws unless the key has 32 bytes.
GcmOpen_Unchecked(key, iv, ciphertext, authTag) ==
    IF key.len # DEK_LENGTH
    THEN DecryptionFailed
    ELSE [ok |-> TRUE, data |-> GcmPlaintext(key, iv, ciphertext)]

GcmOpen(key, iv, ciphertext, authTag) ==
    IF key.len # DEK_LENGTH \/ authTag # GcmAuthTag(key, iv, ciphertext)
    THEN DecryptionFailed
    ELSE [ok |-> TRUE, data |-> GcmPlaintext(key, iv, ciphertext)]

\* encrypt(plaintext) of an engine with masterKey, after n draws of randomBytes.
Encrypt_OneIv(masterKey, plaintext, n) ==
    LET dek == RandomBytes(DEK_LENGTH, n + 1)
        iv == RandomBytes(IV_LENGTH, n + 2)
        ciphertext == GcmCiphertext(dek, iv, plaintext)
        encryptedDek == GcmCiphertext(masterKey, iv, dek)
    IN [ciphertext |-> ciphertext, iv |-> iv,
        authTag |-> GcmAuthTag(dek, iv, ciphertext),
        encryptedDek |-> encryptedDek, dekIv |-> iv,
        dekAuthTag |-> GcmAuthTag(masterKey, iv, encryptedDek)]

Encrypt(masterKey, plaintext, n) ==
    LET dek == RandomBytes(DEK_LENGTH, n + 1)
        iv == RandomBytes(IV_LENGTH, n + 2)
        ciphertext == GcmCiphertext(dek, iv, plaintext)
        dekIv == RandomBytes(IV_LENGTH, n + 3)
        encryptedDek == GcmCiphertext(masterKey, dekIv, dek)
    IN [ciphertext |-> ciphertext, iv |-> iv,
        authTag |-> GcmAuthTag(dek, iv, ciphertext),
        encryptedDek |-> encryptedDek, dekIv |-> dekIv,
        dekAuthTag |-> GcmAuthTag(masterKey, dekIv, encryptedDek)]

\* decrypt(payload) of an engine with masterKey.
Decrypt_ContentUnderDekIv(masterKey, payload) ==
    LET dek == GcmOpen(masterKey, payload.dekIv, payload.encryptedDek, payload.dekAuthTag)
    IN IF ~dek.ok THEN DecryptionFailed
       ELSE GcmOpen(dek.data, payload.dekIv, payload.ciphertext, payload.authTag)

Decrypt(masterKey, payload) ==
    LET dek == GcmOpen(masterKey, payload.dekIv, payload.encryptedDek, payload.dekAuthTag)
    IN IF ~dek.ok THEN DecryptionFailed
       ELSE GcmOpen(dek.data, payload.iv, payload.ciphertext, payload.authTag)

\* The engine variable where no engine is looked at.
NoCrypto == [engines |-> <<>>, payloads |-> <<>>, draws |-> 0]

\* The pipeline variable where no pipeline is looked at.
NoSsg == [config |-> [quarantine |-> FALSE, audit |-> FALSE], reqs |-> <<>>]

\* The rate limiter variable where no rate limiter is looked at.
NoLimiter == [clock |-> 0, zsets |-> <<>>, draws |-> 0, reqs |-> <<>>]

VARIABLES
    now,        \* the wall clock (new Date())
    records,    \* quarantine_records: id -> row
    keyRows,    \* encryption_keys: id -> row
    blobs,      \* the object store: key -> the bytes uploaded under it
    calls,      \* the calls in flight: per slot, the handler's position and locals
    auditLog,   \* the append-only audit log: the events written
    uuidKey,    \* randomUUID() draws so far, per use
    uuidObj,
    uuidRec,
    started,    \* calls started so far
    crypto,     \* the crypto engine on its own: engines, payloads, the last decrypt
    ssg,        \* the detection pipeline: its configuration and its requests
    limiter     \* the rate limiter: Redis' sorted sets and the check calls

vars == <<now, records, keyRows, blobs, calls, auditLog, uuidKey, uuidObj, uuidRec, started,
          crypto, ssg, limiter>>

IdleCall ==
    [op |-> "idle", pc |-> "idle", id |-> 0, status |-> NULL,
     by |-> NULL, notes |-> NULL, s3Key |-> NoKey, at |-> 0, found |-> <<>>,
     idx |-> 0, keyId |-> 0, outcome |-> "none", ret |-> 0,
     input |-> 0, t0 |-> 0, row |-> <<>>, ttl |-> 0, url |-> <<>>]

\* A handler's promise settles: resolved ("ok") or rejected with an error.
Settle(c, outcome, ret) ==
    [IdleCall EXCEPT !.op = c.op, !.pc = "done", !.outcome = outcome, !.ret = ret]

\* Slot p can take a new call (slots are filled lowest first: which slot a call
\* occupies means nothing).
Free(p) ==
    /\ calls[p].pc \in {"idle", "done"}
    /\ \A q \in Procs : q < p => calls[q].pc \notin {"idle", "done"}

\* The ids of the rows of encryption_keys.
keys == DOMAIN keyRows

\* The keys of the object store that hold a blob.
objects == DOMAIN blobs

\* A table or bucket without the entries named in gone.
Without(f, gone) == [k \in DOMAIN f \ gone |-> f[k]]

\* A caller starts a call in slot p.
Begin(p) ==
    /\ Free(p)
    /\ started < MaxOps
    /\ started' = started + 1

\* The service after createQuarantineService: empty tables, an empty bucket.
InitService ==
    /\ now = 0
    /\ records = <<>>
    /\ keyRows = <<>>
    /\ blobs = <<>>
    /\ calls = [p \in Procs |-> IdleCall]
    /\ auditLog = {}
    /\ uuidKey = 0
    /\ uuidObj = 0
    /\ uuidRec = 0
    /\ started = 0

Init ==
    /\ InitService
    /\ crypto = NoCrypto
    /\ ssg = NoSsg
    /\ limiter = NoLimiter

Tick ==
    /\ now < MaxTime
    /\ now' = now + 1
    /\ UNCHANGED <<crypto, ssg, limiter, records, keyRows, blobs, calls, auditLog, uuidKey, uuidObj, uuidRec, started>>

\* ------------------------------------------------------------- store
\* Mutant: the object key is the date path alone.
S3KeyOf_DatePathOnly(t, u) == <<t, 0>>

\* `quarantine/<UTC date>/<uuid>`
S3KeyOf(t, u) == <<t, u>>

\* The bytes of one code point in UTF-8.
Utf8Bytes(cp) ==
    IF cp < 128 THEN 1 ELSE IF cp < 2048 THEN 2 ELSE IF cp < 65536 THEN 3 ELSE 4

RECURSIVE Utf8Length(_)
\* Buffer.from(content, 'utf-8').length
Utf8Length(content) ==
    IF content = <<>> THEN 0 ELSE Utf8Bytes(Head(content)) + Utf8Length(Tail(content))

\* One code point in UTF-8.
Utf8EncodeCp(cp) ==
    IF cp < 128 THEN <<cp>>
    ELSE IF cp < 2048 THEN <<192 + (cp \div 64), 128 + (cp % 64)>>
    ELSE IF cp < 65536
         THEN <<224 + (cp \div 4096), 128 + ((cp \div 64) % 64), 128 + (cp % 64)>>
         ELSE <<240 + (cp \div 262144), 128 + ((cp \div 4096) % 64),
                128 + ((cp \div 64) % 64), 128 + (cp % 64)>>

RECURSIVE Utf8Encode(_)
\* Buffer.from(content, 'utf-8')
Utf8Encode(content) ==
    IF content = <<>> THEN <<>>
    ELSE Utf8EncodeCp(Head(content)) \o Utf8Encode(Tail(content))

\* The master key the service's crypto engine was made from: a valid one.
ServiceMasterKey == Base64Decode([chars |-> 43, seed |-> -1])

\* The plaintext of a store call: contentBuffer.
ContentBuffer(c) == Bytes(Utf8Encode(StoreInputs[c.input].content))

\* encryption.encrypt(contentBuffer) of a store call.  The call that draws the n-th
\* key id is the n-th to encrypt: both happen before store first awaits.
EncryptedOf(c) == Encrypt(ServiceMasterKey, ContentBuffer(c), 3 * (c.keyId - 1))

\* The row EncryptionKey.create is given, its id apart.
KeyRowOf(encrypted) ==
    [encryptedDataKey |-> Base64Encode(encrypted.encryptedDek),
     iv |-> Base64Encode(encrypted.dekIv),
     authTag |-> Base64Encode(encrypted.dekAuthTag),
     algorithm |-> ALGORITHM]

\* Bytes as they are, under no pad.
Raw(b) == [len |-> b.len, pad |-> <<>>, x |-> b]

\* A caller calls store(content, metadata): the content is hashed and encrypted, the
\* id of the key row is drawn and EncryptionKey.create is issued.
StoreBegin(p, inputs) ==
    /\ Begin(p)
    /\ uuidKey < MaxStores
    /\ uuidKey' = uuidKey + 1
    /\ \E i \in inputs :
          calls' = [calls EXCEPT ![p] =
                       [IdleCall EXCEPT !.op = "store", !.pc = "keyCreate",
                                        !.keyId = uuidKey + 1, !.t0 = now, !.input = i]]
    /\ UNCHANGED <<crypto, limiter, now, records, keyRows, blobs, auditLog, uuidObj, uuidRec>>

\* store called by a caller of the service itself.
StoreStart(p, inputs) == StoreBegin(p, inputs) /\ UNCHANGED ssg

\* Mutant: the key row is not yet persisted when store goes on.
StoreKeyCreate_Unpersisted(p) ==
    /\ calls[p].op = "store" /\ calls[p].pc = "keyCreate"
    /\ uuidObj' = uuidObj + 1
    /\ calls' = [calls EXCEPT ![p].pc = "upload", ![p].at = now,
                              ![p].s3Key = S3KeyOf(now, uuidObj + 1)]
    /\ UNCHANGED <<crypto, ssg, limiter, now, records, keyRows, blobs, auditLog, uuidKey, uuidRec, started>>

\* EncryptionKey.create resolves; then the date and the object key are drawn and
\* storage.upload is issued.
StoreKeyCreate(p) ==
    /\ calls[p].op = "store" /\ calls[p].pc = "keyCreate"
    /\ uuidObj' = uuidObj + 1
    /\ keyRows' = (calls[p].keyId :> KeyRowOf(EncryptedOf(calls[p]))) @@ keyRows
    /\ calls' = [calls EXCEPT ![p].pc = "upload", ![p].at = now,
                              ![p].s3Key = S3KeyOf(now, uuidObj + 1)]
    /\ UNCHANGED <<crypto, ssg, limiter, now, records, blobs, auditLog, uuidKey, uuidRec, started>>

StoreKeyCreateFails(p) ==
    /\ calls[p].op = "store" /\ calls[p].pc = "keyCreate"
    /\ calls' = [calls EXCEPT ![p] = Settle(calls[p], "DbError", 0)]
    /\ UNCHANGED <<crypto, ssg, limiter, now, records, keyRows, blobs, auditLog, uuidKey, uuidObj, uuidRec, started>>

\* Mutant: the content buffer is uploaded instead of the ciphertext.
StoreUpload_Plaintext(p) ==
    /\ calls[p].op = "store" /\ calls[p].pc = "upload"
    /\ blobs' = (calls[p].s3Key :> Raw(ContentBuffer(calls[p]))) @@ blobs
    /\ calls' = [calls EXCEPT ![p].pc = "create"]
    /\ UNCHANGED <<crypto, ssg, limiter, now, records, keyRows, auditLog, uuidKey, uuidObj, uuidRec, started>>

StoreUpload(p) ==
    /\ calls[p].op = "store" /\ calls[p].pc = "upload"
    /\ blobs' = (calls[p].s3Key :> EncryptedOf(calls[p]).ciphertext) @@ blobs
    /\ calls' = [calls EXCEPT ![p].pc = "create"]
    /\ UNCHANGED <<crypto, ssg, limiter, now, records, keyRows, auditLog, uuidKey, uuidObj, uuidRec, started>>

\* Mutant: the failure of storage.upload is swallowed.
StoreUploadFails_Swallowed(p) ==
    /\ calls[p].op = "store" /\ calls[p].pc = "upload"
    /\ calls' = [calls EXCEPT ![p].pc = "create"]
    /\ UNCHANGED <<crypto, ssg, limiter, now, records, keyRows, blobs, auditLog, uuidKey, uuidObj, uuidRec, started>>

\* Mutant: a failed upload rolls the key row back.
StoreUploadFails_RolledBack(p) ==
    /\ calls[p].op = "store" /\ calls[p].pc = "upload"
    /\ keyRows' = Without(keyRows, {calls[p].keyId})
    /\ calls' = [calls EXCEPT ![p] = Settle(calls[p], "StorageError", 0)]
    /\ UNCHANGED <<crypto, ssg, limiter, now, records, blobs, auditLog, uuidKey, uuidObj, uuidRec, started>>

\* Mutant: a failed upload is tried again, once.
StoreUploadFails_Retried(p) ==
    /\ calls[p].op = "store" /\ calls[p].pc = "upload"
    /\ calls' = [calls EXCEPT ![p] =
                    IF calls[p].idx = 0 THEN [calls[p] EXCEPT !.idx = 1]
                    ELSE Settle(calls[p], "StorageError", 0)]
    /\ UNCHANGED <<crypto, ssg, limiter, now, records, keyRows, blobs, auditLog, uuidKey, uuidObj, uuidRec, started>>

StoreUploadFails(p) ==
    /\ calls[p].op = "store" /\ calls[p].pc = "upload"
    /\ calls' = [calls EXCEPT ![p] = Settle(calls[p], "StorageError", 0)]
    /\ UNCHANGED <<crypto, ssg, limiter, now, records, keyRows, blobs, auditLog, uuidKey, uuidObj, uuidRec, started>>

\* createHash('sha256').update(contentBuffer).digest('hex'): a digest names its
\* preimage, and nothing is computed from it but equality.
Sha256Hex(content) == <<"sha256", content>>

\* Mutant: expiresAt is the time of the call, without the TTL.
NewRecord_NoTtl(c) ==
    [s3Key |-> c.s3Key, status |-> "QUARANTINED", encryptionKeyId |-> c.keyId,
     tier |-> StoreInputs[c.input].tier, labels |-> StoreInputs[c.input].labels,
     contentHash |-> Sha256Hex(StoreInputs[c.input].content),
     sizeBytes |-> Utf8Length(StoreInputs[c.input].content),
     expiresAt |-> c.at,
     reviewedBy |-> NULL, reviewedAt |-> -1, reviewNotes |-> NULL]

\* Mutant: every record is linked to the first key row ever written.
NewRecord_FirstKey(c) ==
    [s3Key |-> c.s3Key, status |-> "QUARANTINED", encryptionKeyId |-> 1,
     tier |-> StoreInputs[c.input].tier, labels |-> StoreInputs[c.input].labels,
     contentHash |-> Sha256Hex(StoreInputs[c.input].content),
     sizeBytes |-> Utf8Length(StoreInputs[c.input].content),
     expiresAt |-> c.at + ExpiryTicks,
     reviewedBy |-> NULL, reviewedAt |-> -1, reviewNotes |-> NULL]

NewRecord(c) ==
    [s3Key |-> c.s3Key, status |-> "QUARANTINED", encryptionKeyId |-> c.keyId,
     tier |-> StoreInputs[c.input].tier, labels |-> StoreInputs[c.input].labels,
     contentHash |-> Sha256Hex(StoreInputs[c.input].content),
     sizeBytes |-> Utf8Length(StoreInputs[c.input].content),
     expiresAt |-> c.at + ExpiryTicks,
     reviewedBy |-> NULL, reviewedAt |-> -1, reviewNotes |-> NULL]

\* QuarantineRecord.create resolves and store returns the new id.  (The foreign key
\* of the migration can only make an insert fail, which StoreRecordCreateFails covers;
\* the model takes no success from it.)
StoreRecordCreate(p) ==
    /\ calls[p].op = "store" /\ calls[p].pc = "create"
    /\ uuidRec' = uuidRec + 1
    /\ records' = records @@ ((uuidRec + 1) :> NewRecord(calls[p]))
    /\ calls' = [calls EXCEPT ![p] = Settle(calls[p], "ok", uuidRec + 1)]
    /\ UNCHANGED <<crypto, ssg, limiter, now, keyRows, blobs, auditLog, uuidKey, uuidObj, started>>

StoreRecordCreateFails(p) ==
    /\ calls[p].op = "store" /\ calls[p].pc = "create"
    /\ uuidRec' = uuidRec + 1
    /\ calls' = [calls EXCEPT ![p] = Settle(calls[p], "DbError", 0)]
    /\ UNCHANGED <<crypto, ssg, limiter, now, records, keyRows, blobs, auditLog, uuidKey, uuidObj, started>>

\* ------------------------------------------------------------- updateStatus
\* Mutant: the blob delete is skipped.
UpdateStatusFind_NoDelete(c, id, status, by, notes) ==
    IF id \notin DOMAIN records
    THEN [Settle(c, "NotFound", 0) EXCEPT !.id = id]
    ELSE [c EXCEPT !.id = id, !.status = status, !.by = by, !.notes = notes,
                   !.at = IF by # NULL THEN now ELSE 0,
                   !.s3Key = IF status = "DELETED" THEN records[id].s3Key ELSE NoKey,
                   !.pc = "update"]

\* Mutant: a DELETED request for an id without a record goes on to the blob delete.
UpdateStatusFind_DeleteUnknown(c, id, status, by, notes) ==
    IF id \notin DOMAIN records /\ status # "DELETED"
    THEN [Settle(c, "NotFound", 0) EXCEPT !.id = id]
    ELSE [c EXCEPT !.id = id, !.status = status, !.by = by, !.notes = notes,
                   !.at = IF by # NULL THEN now ELSE 0,
                   !.s3Key = IF status = "DELETED" /\ id \in DOMAIN records
                             THEN records[id].s3Key ELSE NoKey,
                   !.pc = IF status = "DELETED" THEN "delete" ELSE "update"]

\* Mutant: every status change deletes the blob first.
UpdateStatusFind_AlwaysDelete(c, id, status, by, notes) ==
    IF id \notin DOMAIN records
    THEN [Settle(c, "NotFound", 0) EXCEPT !.id = id]
    ELSE [c EXCEPT !.id = id, !.status = status, !.by = by, !.notes = notes,
                   !.at = IF by # NULL THEN now ELSE 0,
                   !.s3Key = records[id].s3Key,
                   !.pc = "delete"]

\* QuarantineRecord.findByPk resolves; updateData is built (new Date() is read only
\* for a reviewer, the row's s3Key only for DELETED); the next await is issued.
\* The not-found error names the id.
UpdateStatusFind(c, id, status, by, notes) ==
    IF id \notin DOMAIN records
    THEN [Settle(c, "NotFound", 0) EXCEPT !.id = id]
    ELSE [c EXCEPT !.id = id, !.status = status, !.by = by, !.notes = notes,
                   !.at = IF by # NULL THEN now ELSE 0,
                   !.s3Key = IF status = "DELETED" THEN records[id].s3Key ELSE NoKey,
                   !.pc = IF status = "DELETED" THEN "delete" ELSE "update"]

UpdateStatusStart(p, reviews) ==
    /\ Begin(p)
    /\ \E id \in Uuids \cup {UnknownId}, status \in QuarantineStatus, review \in reviews :
          calls' = [calls EXCEPT ![p] =
                       UpdateStatusFind([IdleCall EXCEPT !.op = "updateStatus"],
                                        id, status, review[1], review[2])]
    /\ UNCHANGED <<crypto, ssg, limiter, now, records, keyRows, blobs, auditLog, uuidKey, uuidObj, uuidRec>>

UpdateStatus(p) == UpdateStatusStart(p, ReviewInputs)

UpdateStatusFindFails(p) ==
    /\ Begin(p)
    /\ calls' = [calls EXCEPT ![p] =
                    Settle([IdleCall EXCEPT !.op = "updateStatus"],
                           "DbError", 0)]
    /\ UNCHANGED <<crypto, ssg, limiter, now, records, keyRows, blobs, auditLog, uuidKey, uuidObj, uuidRec>>

\* Mutant: deleting the blob also deletes the record's key row.
UpdateStatusDelete_DropsKey(p) ==
    /\ calls[p].pc = "delete"
    /\ blobs' = Without(blobs, {calls[p].s3Key})
    /\ keyRows' = Without(keyRows, {records[calls[p].id].encryptionKeyId})
    /\ calls' = [calls EXCEPT ![p].pc = "update"]
    /\ UNCHANGED <<crypto, ssg, limiter, now, records, auditLog, uuidKey, uuidObj, uuidRec, started>>

\* storage.delete(s3Key): deleting a key that holds nothing is not an error.
UpdateStatusDelete(p) ==
    /\ calls[p].pc = "delete"
    /\ blobs' = Without(blobs, {calls[p].s3Key})
    /\ calls' = [calls EXCEPT ![p].pc = "update"]
    /\ UNCHANGED <<crypto, ssg, limiter, now, records, keyRows, auditLog, uuidKey, uuidObj, uuidRec, started>>

\* Mutant: the failure of storage.delete is swallowed.
UpdateStatusDeleteFails_Swallowed(p) ==
    /\ calls[p].pc = "delete"
    /\ calls' = [calls EXCEPT ![p].pc = "update"]
    /\ UNCHANGED <<crypto, ssg, limiter, now, records, keyRows, blobs, auditLog, uuidKey, uuidObj, uuidRec, started>>

UpdateStatusDeleteFails(p) ==
    /\ calls[p].pc = "delete"
    /\ calls' = [calls EXCEPT ![p] = Settle(calls[p], "StorageError", 0)]
    /\ UNCHANGED <<crypto, ssg, limiter, now, records, keyRows, blobs, auditLog, uuidKey, uuidObj, uuidRec, started>>

\* Mutant: the service refuses to move a record out of a terminal status.
ApplyUpdate_Guarded(r, c) ==
    IF r.status \notin ActiveStatuses THEN r
    ELSE [r EXCEPT !.status = c.status,
                   !.reviewedBy = IF c.by # NULL THEN c.by ELSE @,
                   !.reviewedAt = IF c.by # NULL THEN c.at ELSE @,
                   !.reviewNotes = IF c.notes # NULL THEN c.notes ELSE @]

\* updateData applied to a row.
ApplyUpdate(r, c) ==
    [r EXCEPT !.status = c.status,
              !.reviewedBy = IF c.by # NULL THEN c.by ELSE @,
              !.reviewedAt = IF c.by # NULL THEN c.at ELSE @,
              !.reviewNotes = IF c.notes # NULL THEN c.notes ELSE @]

\* updateStatus returns: to its caller, or into the moderation service, whose next
\* await is audit.log.
AfterUpdate(c) ==
    IF c.op = "updateStatus" THEN Settle(c, "ok", 0) ELSE [c EXCEPT !.pc = "audit"]

\* record.update(updateData)
UpdateStatusUpdate(p) ==
    /\ calls[p].pc = "update"
    /\ records' = [records EXCEPT ![calls[p].id] = ApplyUpdate(@, calls[p])]
    /\ calls' = [calls EXCEPT ![p] = AfterUpdate(calls[p])]
    /\ UNCHANGED <<crypto, ssg, limiter, now, keyRows, blobs, auditLog, uuidKey, uuidObj, uuidRec, started>>

UpdateStatusUpdateFails(p) ==
    /\ calls[p].pc = "update"
    /\ calls' = [calls EXCEPT ![p] = Settle(calls[p], "DbError", 0)]
    /\ UNCHANGED <<crypto, ssg, limiter, now, records, keyRows, blobs, auditLog, uuidKey, uuidObj, uuidRec, started>>

\* ------------------------------------------------------------- cleanup
RECURSIVE SeqOfSet(_)
\* The rows a query returns, in primary-key order.
SeqOfSet(S) ==
    IF S = {} THEN <<>>
    ELSE LET m == CHOOSE x \in S : \A y \in S : x <= y
         IN <<m>> \o SeqOfSet(S \ {m})

\* Mutant: the expiry boundary is exclusive.
IsExpiredActive_Strict(r, t) == r.expiresAt < t /\ r.status \in ActiveStatuses

\* where expiresAt <= now and status in (QUARANTINED, UNDER_REVIEW)
IsExpiredActive(r, t) == r.expiresAt <= t /\ r.status \in ActiveStatuses

FindExpired(t) ==
    SeqOfSet({id \in DOMAIN records : IsExpiredActive(records[id], t)})

Min(a, b) == IF a <= b THEN a ELSE b

\* keys.slice(i, i + batchSize)
Batch(found, i) ==
    {records[found[k]].s3Key : k \in (i + 1)..Min(Len(found), i + batchSize)}

Cleanup(p) ==
    /\ Begin(p)
    /\ LET found == FindExpired(now)
           c == [IdleCall EXCEPT !.op = "cleanup", !.at = now]
       IN calls' = [calls EXCEPT ![p] =
                       IF Len(found) = 0 THEN Settle(c, "ok", 0)
                       ELSE [c EXCEPT !.pc = "deleteMany", !.found = found, !.idx = 0]]
    /\ UNCHANGED <<crypto, ssg, limiter, now, records, keyRows, blobs, auditLog, uuidKey, uuidObj, uuidRec>>

CleanupFindFails(p) ==
    /\ Begin(p)
    /\ calls' = [calls EXCEPT ![p] =
                    Settle([IdleCall EXCEPT !.op = "cleanup"],
                           "DbError", 0)]
    /\ UNCHANGED <<crypto, ssg, limiter, now, records, keyRows, blobs, auditLog, uuidKey, uuidObj, uuidRec>>

\* Mutant: a request that names a key which is no longer stored is rejected.
CleanupDeleteMany_Strict(p) ==
    /\ calls[p].pc = "deleteMany"
    /\ IF Batch(calls[p].found, calls[p].idx) \subseteq DOMAIN blobs
       THEN /\ blobs' = Without(blobs, Batch(calls[p].found, calls[p].idx))
            /\ calls' = [calls EXCEPT
                            ![p].idx = @ + batchSize,
                            ![p].pc = IF calls[p].idx + batchSize < Len(calls[p].found)
                                      THEN "deleteMany" ELSE "bulkUpdate"]
       ELSE /\ blobs' = blobs
            /\ calls' = [calls EXCEPT ![p] = Settle(calls[p], "StorageError", 0)]
    /\ UNCHANGED <<crypto, ssg, limiter, now, records, keyRows, auditLog, uuidKey, uuidObj, uuidRec, started>>

\* One DeleteObjects request of storage.deleteMany's loop.
CleanupDeleteMany(p) ==
    /\ calls[p].pc = "deleteMany"
    /\ blobs' = Without(blobs, Batch(calls[p].found, calls[p].idx))
    /\ calls' = [calls EXCEPT ![p].idx = @ + batchSize,
                              ![p].pc = IF calls[p].idx + batchSize < Len(calls[p].found)
                                        THEN "deleteMany" ELSE "bulkUpdate"]
    /\ UNCHANGED <<crypto, ssg, limiter, now, records, keyRows, auditLog, uuidKey, uuidObj, uuidRec, started>>

\* Mutant: the failure of storage.deleteMany is swallowed.
CleanupDeleteManyFails_Swallowed(p) ==
    /\ calls[p].pc = "deleteMany"
    /\ calls' = [calls EXCEPT ![p].pc = "bulkUpdate"]
    /\ UNCHANGED <<crypto, ssg, limiter, now, records, keyRows, blobs, auditLog, uuidKey, uuidObj, uuidRec, started>>

CleanupDeleteManyFails(p) ==
    /\ calls[p].pc = "deleteMany"
    /\ calls' = [calls EXCEPT ![p] = Settle(calls[p], "StorageError", 0)]
    /\ UNCHANGED <<crypto, ssg, limiter, now, records, keyRows, blobs, auditLog, uuidKey, uuidObj, uuidRec, started>>

Range(s) == {s[k] : k \in 1..Len(s)}

\* Mutant: the bulk update writes nothing.
MarkExpired_Noop(r) == r

\* Mutant: the bulk update is fenced on the status the sweep found.
MarkExpired_Fenced(r) ==
    IF r.status \in ActiveStatuses THEN [r EXCEPT !.status = "EXPIRED"] ELSE r

\* Mutant: the bulk update also clears the storage key of the rows it expires.
MarkExpired_ClearsKey(r) == [r EXCEPT !.status = "EXPIRED", !.s3Key = NoKey]

\* the row after QuarantineRecord.update({ status: 'EXPIRED' }, { where: { id: in ids } })
MarkExpired(r) == [r EXCEPT !.status = "EXPIRED"]

CleanupBulkUpdate(p) ==
    /\ calls[p].pc = "bulkUpdate"
    /\ records' = [id \in DOMAIN records |->
                      IF id \in Range(calls[p].found) THEN MarkExpired(records[id])
                      ELSE records[id]]
    /\ calls' = [calls EXCEPT ![p] = Settle(calls[p], "ok", Len(calls[p].found))]
    /\ UNCHANGED <<crypto, ssg, limiter, now, keyRows, blobs, auditLog, uuidKey, uuidObj, uuidRec, started>>

CleanupBulkUpdateFails(p) ==
    /\ calls[p].pc = "bulkUpdate"
    /\ calls' = [calls EXCEPT ![p] = Settle(calls[p], "DbError", 0)]
    /\ UNCHANGED <<crypto, ssg, limiter, now, records, keyRows, blobs, auditLog, uuidKey, uuidObj, uuidRec, started>>

\* ------------------------------------------------------------- getMetadata
\* Mutant: getMetadata throws for an id without a record.
GetMetadataResult_Throws(c, id) ==
    IF id \in DOMAIN records
    THEN [Settle(c, "ok", 0) EXCEPT !.id = id, !.row = <<records[id]>>]
    ELSE [Settle(c, "NotFound", 0) EXCEPT !.id = id]

\* QuarantineRecord.findByPk resolves: the plain attributes of the row, or null.
GetMetadataResult(c, id) ==
    [Settle(c, "ok", 0) EXCEPT
        !.id = id, !.row = IF id \in DOMAIN records THEN <<records[id]>> ELSE <<>>]

GetMetadata(p) ==
    /\ Begin(p)
    /\ \E id \in Uuids \cup {UnknownId} :
          calls' = [calls EXCEPT ![p] =
                       GetMetadataResult([IdleCall EXCEPT !.op = "getMetadata"], id)]
    /\ UNCHANGED <<crypto, ssg, limiter, now, records, keyRows, blobs, auditLog, uuidKey, uuidObj, uuidRec>>

GetMetadataFails(p) ==
    /\ Begin(p)
    /\ calls' = [calls EXCEPT ![p] =
                    Settle([IdleCall EXCEPT !.op = "getMetadata"], "DbError", 0)]
    /\ UNCHANGED <<crypto, ssg, limiter, now, records, keyRows, blobs, auditLog, uuidKey, uuidObj, uuidRec>>

\* ------------------------------------------------------------- generateSignedUrl
\* Mutant: the storage client is asked to sign whether or not the record exists.
GenerateSignedUrlFind_SignUnknown(c, id, expirySeconds) ==
    [c EXCEPT !.id = id, !.ttl = expirySeconds,
              !.s3Key = IF id \in DOMAIN records THEN records[id].s3Key ELSE NoKey,
              !.pc = "sign"]

\* QuarantineRecord.findByPk resolves; storage.getSignedUrl is called with the row's
\* s3Key.
GenerateSignedUrlFind(c, id, expirySeconds) ==
    IF id \notin DOMAIN records
    THEN [Settle(c, "NotFound", 0) EXCEPT !.id = id]
    ELSE [c EXCEPT !.id = id, !.ttl = expirySeconds, !.s3Key = records[id].s3Key,
                   !.pc = "sign"]

GenerateSignedUrl(p) ==
    /\ Begin(p)
    /\ \E id \in Uuids \cup {UnknownId}, expirySeconds \in ExpirySecondsInputs :
          calls' = [calls EXCEPT ![p] =
                       GenerateSignedUrlFind([IdleCall EXCEPT !.op = "generateSignedUrl"],
                                             id, expirySeconds)]
    /\ UNCHANGED <<crypto, ssg, limiter, now, records, keyRows, blobs, auditLog, uuidKey, uuidObj, uuidRec>>

GenerateSignedUrlFindFails(p) ==
    /\ Begin(p)
    /\ calls' = [calls EXCEPT ![p] =
                    Settle([IdleCall EXCEPT !.op = "generateSignedUrl"], "DbError", 0)]
    /\ UNCHANGED <<crypto, ssg, limiter, now, records, keyRows, blobs, auditLog, uuidKey, uuidObj, uuidRec>>

\* What the storage client's getSignedUrl resolves to: a GetObject request for the
\* key, presigned at time t and valid for expirySeconds.
GetSignedUrl(key, expirySeconds, t) ==
    [method |-> "GetObject", key |-> key, expiresIn |-> expirySeconds, signedAt |-> t]

\* storage.getSignedUrl resolves and generateSignedUrl returns its value.
GenerateSignedUrlSign(p) ==
    /\ calls[p].pc = "sign"
    /\ calls' = [calls EXCEPT ![p] =
                    [Settle(calls[p], "ok", 0) EXCEPT
                        !.url = <<GetSignedUrl(calls[p].s3Key, calls[p].ttl, now)>>]]
    /\ UNCHANGED <<crypto, ssg, limiter, now, records, keyRows, blobs, auditLog, uuidKey, uuidObj, uuidRec, started>>

GenerateSignedUrlSignFails(p) ==
    /\ calls[p].pc = "sign"
    /\ calls' = [calls EXCEPT ![p] = Settle(calls[p], "StorageError", 0)]
    /\ UNCHANGED <<crypto, ssg, limiter, now, records, keyRows, blobs, auditLog, uuidKey, uuidObj, uuidRec, started>>

\* ------------------------------------------------------------- the lifecycle service
Next ==
    \/ Tick
    \/ \E p \in Procs :
        \/ StoreStart(p, LifecycleInputs)
        \/ StoreKeyCreate(p) \/ StoreKeyCreateFails(p)
        \/ StoreUpload(p) \/ StoreUploadFails(p)
        \/ StoreRecordCreate(p) \/ StoreRecordCreateFails(p)
        \/ UpdateStatus(p) \/ UpdateStatusFindFails(p)
        \/ UpdateStatusDelete(p) \/ UpdateStatusDeleteFails(p)
        \/ UpdateStatusUpdate(p) \/ UpdateStatusUpdateFails(p)
        \/ Cleanup(p) \/ CleanupFindFails(p)
        \/ CleanupDeleteMany(p) \/ CleanupDeleteManyFails(p)
        \/ CleanupBulkUpdate(p) \/ CleanupBulkUpdateFails(p)

Spec == Init /\ [][Next]_vars

\* The lifecycle of a record: the calls of Next, updateStatus with the review inputs
\* that stand for all.
NextLifecycle ==
    \/ Tick
    \/ \E p \in Procs :
        \/ StoreStart(p, LifecycleInputs)
        \/ StoreKeyCreate(p) \/ StoreKeyCreateFails(p)
        \/ StoreUpload(p) \/ StoreUploadFails(p)
        \/ StoreRecordCreate(p) \/ StoreRecordCreateFails(p)
        \/ UpdateStatusStart(p, LifecycleReviews) \/ UpdateStatusFindFails(p)
        \/ UpdateStatusDelete(p) \/ UpdateStatusDeleteFails(p)
        \/ UpdateStatusUpdate(p) \/ UpdateStatusUpdateFails(p)
        \/ Cleanup(p) \/ CleanupFindFails(p)
        \/ CleanupDeleteMany(p) \/ CleanupDeleteManyFails(p)
        \/ CleanupBulkUpdate(p) \/ CleanupBulkUpdateFails(p)

SpecLifecycle == Init /\ [][NextLifecycle]_vars

\* Reviews: records that were stored, and updateStatus with every review input.
NextReview ==
    \/ Tick
    \/ \E p \in Procs :
        \/ StoreStart(p, LifecycleInputs)
        \/ StoreKeyCreate(p) \/ StoreUpload(p) \/ StoreRecordCreate(p)
        \/ UpdateStatus(p) \/ UpdateStatusDelete(p) \/ UpdateStatusUpdate(p)

SpecReview == Init /\ [][NextReview]_vars

\* The reads of the service.
Reads ==
    \E p \in Procs :
        \/ GetMetadata(p) \/ GetMetadataFails(p)
        \/ GenerateSignedUrl(p) \/ GenerateSignedUrlFindFails(p)
        \/ GenerateSignedUrlSign(p) \/ GenerateSignedUrlSignFails(p)

\* The calls of the request handlers (the sweep is a background job): store,
\* updateStatus and the reads.
NextApi ==
    \/ Tick
    \/ Reads
    \/ \E p \in Procs :
        \/ StoreStart(p, LifecycleInputs)
        \/ StoreKeyCreate(p) \/ StoreKeyCreateFails(p)
        \/ StoreUpload(p) \/ StoreUploadFails(p)
        \/ StoreRecordCreate(p) \/ StoreRecordCreateFails(p)
        \/ UpdateStatusStart(p, LifecycleReviews) \/ UpdateStatusFindFails(p)
        \/ UpdateStatusDelete(p) \/ UpdateStatusDeleteFails(p)
        \/ UpdateStatusUpdate(p) \/ UpdateStatusUpdateFails(p)

SpecApi == Init /\ [][NextApi]_vars

\* store, with every input, and the reads.
NextStore ==
    \/ Tick
    \/ Reads
    \/ \E p \in Procs :
        \/ StoreStart(p, AllInputs)
        \/ StoreKeyCreate(p) \/ StoreKeyCreateFails(p)
        \/ StoreUpload(p) \/ StoreUploadFails(p)
        \/ StoreRecordCreate(p) \/ StoreRecordCreateFails(p)

SpecStore == Init /\ [][NextStore]_vars

\* store and the sweep, with every backend call resolving.
NextSweeps ==
    \/ Tick
    \/ \E p \in Procs :
        \/ StoreStart(p, LifecycleInputs)
        \/ StoreKeyCreate(p) \/ StoreUpload(p) \/ StoreRecordCreate(p)
        \/ Cleanup(p) \/ CleanupDeleteMany(p) \/ CleanupBulkUpdate(p)

SpecSweeps == Init /\ [][NextSweeps]_vars

\* ------------------------------------------------------------- the moderation workflow
BotId == "bot-1"
AdminId == "admin-1"
VALID_BOT_ACTIONS == {"release", "delete", "escalate"}
VALID_HUMAN_ACTIONS == {"release", "delete"}
VALID_BOT_REASONS == {"FALSE_POSITIVE", "TRUE_POSITIVE_LOW_RISK", "TRUE_POSITIVE_HIGH_RISK",
                      "NEEDS_HUMAN_REVIEW", "POLICY_VIOLATION", "DUPLICATE_CONTENT"}
\* What a request may carry.
ActionInputs == {"release", "delete", "escalate", "view"}
ReasonInputs == {"FALSE_POSITIVE", "SPAM"}
\* confidence, in tenths: valid from 0.0 to 1.0
ConfidenceInputs == {5, 11}

\* The status an action asks updateStatus for.
StatusFor(action) ==
    CASE action = "release" -> "RELEASED"
      [] action = "delete" -> "DELETED"
      [] action = "escalate" -> "UNDER_REVIEW"

\* An ActionResult: success, and the newStatus it reports.
ActionResult(c, success, newStatus) ==
    [Settle(c, IF success THEN "ok" ELSE "refused", 0) EXCEPT !.status = newStatus]

\* Mutant: a bot may act on every record that is still active.
BotMayActOn_Active(status) == status \in ActiveStatuses

\* Which statuses a bot may act on.
BotMayActOn(status) == status = "QUARANTINED"

\* executeBotAction up to its call of quarantine.updateStatus: the request is
\* validated, quarantine.getMetadata resolves, the record's status is checked.
BotDecide(c, id, action, reason, confidence) ==
    IF action \notin VALID_BOT_ACTIONS THEN ActionResult(c, FALSE, "QUARANTINED")
    ELSE IF reason \notin VALID_BOT_REASONS THEN ActionResult(c, FALSE, "QUARANTINED")
    ELSE IF confidence < 0 \/ confidence > 10 THEN ActionResult(c, FALSE, "QUARANTINED")
    ELSE IF id \notin DOMAIN records THEN ActionResult(c, FALSE, "QUARANTINED")
    ELSE IF ~BotMayActOn(records[id].status) THEN ActionResult(c, FALSE, records[id].status)
    ELSE [c EXCEPT !.pc = "find", !.id = id, !.status = StatusFor(action),
                   !.by = BotId, !.notes = "bot-notes"]

ExecuteBotAction(p) ==
    /\ Begin(p)
    /\ \E id \in Uuids \cup {UnknownId}, action \in ActionInputs,
          reason \in ReasonInputs, confidence \in ConfidenceInputs :
          calls' = [calls EXCEPT ![p] =
                       BotDecide([IdleCall EXCEPT !.op = "bot"], id, action, reason, confidence)]
    /\ UNCHANGED <<crypto, ssg, limiter, now, records, keyRows, blobs, auditLog, uuidKey, uuidObj, uuidRec>>

\* Mutant: a human admin may act on a record in any status.
HumanMayActOn_Any(status) == TRUE

\* Which statuses a human admin may act on.
HumanMayActOn(status) == status \in {"QUARANTINED", "UNDER_REVIEW"}

\* executeHumanAction up to its call of quarantine.updateStatus.
HumanDecide(c, id, action, notes) ==
    IF action \notin VALID_HUMAN_ACTIONS THEN ActionResult(c, FALSE, "QUARANTINED")
    ELSE IF id \notin DOMAIN records THEN ActionResult(c, FALSE, "QUARANTINED")
    ELSE IF ~HumanMayActOn(records[id].status) THEN ActionResult(c, FALSE, records[id].status)
    ELSE [c EXCEPT !.pc = "find", !.id = id, !.status = StatusFor(action),
                   !.by = AdminId,
                   !.notes = IF notes # NULL THEN notes ELSE "action-notes"]

HumanActionStart(p, noteInputs) ==
    /\ Begin(p)
    /\ \E id \in Uuids \cup {UnknownId}, action \in ActionInputs, notes \in noteInputs :
          calls' = [calls EXCEPT ![p] =
                       HumanDecide([IdleCall EXCEPT !.op = "human"], id, action, notes)]
    /\ UNCHANGED <<crypto, ssg, limiter, now, records, keyRows, blobs, auditLog, uuidKey, uuidObj, uuidRec>>

ExecuteHumanAction(p) == HumanActionStart(p, NoteTexts)

\* quarantine.getMetadata rejects: the action fails with the error.
ModerationGetMetadataFails(p) ==
    /\ Begin(p)
    /\ \E op \in {"bot", "human"} :
          calls' = [calls EXCEPT ![p] = Settle([IdleCall EXCEPT !.op = op], "DbError", 0)]
    /\ UNCHANGED <<crypto, ssg, limiter, now, records, keyRows, blobs, auditLog, uuidKey, uuidObj, uuidRec>>

\* updateStatus called by the moderation service: its findByPk resolves.
ModerationUpdateStatus(p) ==
    /\ calls[p].pc = "find"
    /\ calls' = [calls EXCEPT ![p] =
                    UpdateStatusFind(calls[p], calls[p].id, calls[p].status,
                                     calls[p].by, calls[p].notes)]
    /\ UNCHANGED <<crypto, ssg, limiter, now, records, keyRows, blobs, auditLog, uuidKey, uuidObj, uuidRec, started>>

ModerationUpdateStatusFindFails(p) ==
    /\ calls[p].pc = "find"
    /\ calls' = [calls EXCEPT ![p] = Settle(calls[p], "DbError", 0)]
    /\ UNCHANGED <<crypto, ssg, limiter, now, records, keyRows, blobs, auditLog, uuidKey, uuidObj, uuidRec, started>>

\* The audit event of a status change.
AuditEventOf(c) ==
    [eventType |-> CASE c.op = "bot" /\ c.status = "RELEASED" -> "BOT_RELEASE"
                     [] c.op = "bot" /\ c.status = "DELETED" -> "BOT_DELETE"
                     [] c.op = "bot" /\ c.status = "UNDER_REVIEW" -> "BOT_ESCALATE"
                     [] c.op = "human" /\ c.status = "RELEASED" -> "HUMAN_RELEASE"
                     [] c.op = "human" /\ c.status = "DELETED" -> "HUMAN_DELETE",
     actorId |-> c.by, targetId |-> c.id]

\* audit.log resolves and the action returns its result.
ModerationAudit(p) ==
    /\ calls[p].pc = "audit"
    /\ auditLog' = auditLog \cup {AuditEventOf(calls[p])}
    /\ calls' = [calls EXCEPT ![p] = ActionResult(calls[p], TRUE, calls[p].status)]
    /\ UNCHANGED <<crypto, ssg, limiter, now, records, keyRows, blobs, uuidKey, uuidObj, uuidRec, started>>

ModerationAuditFails(p) ==
    /\ calls[p].pc = "audit"
    /\ calls' = [calls EXCEPT ![p] = Settle(calls[p], "AuditError", 0)]
    /\ UNCHANGED <<crypto, ssg, limiter, now, records, keyRows, blobs, auditLog, uuidKey, uuidObj, uuidRec, started>>

\* Status changes only through the moderation workflow and the sweep.
NextMod ==
    \/ Tick
    \/ \E p \in Procs :
        \/ StoreStart(p, LifecycleInputs)
        \/ StoreKeyCreate(p) \/ StoreKeyCreateFails(p)
        \/ StoreUpload(p) \/ StoreUploadFails(p)
        \/ StoreRecordCreate(p) \/ StoreRecordCreateFails(p)
        \/ ExecuteBotAction(p) \/ HumanActionStart(p, LifecycleNotes) \/ ModerationGetMetadataFails(p)
        \/ ModerationUpdateStatus(p) \/ ModerationUpdateStatusFindFails(p)
        \/ UpdateStatusDelete(p) \/ UpdateStatusDeleteFails(p)
        \/ UpdateStatusUpdate(p) \/ UpdateStatusUpdateFails(p)
        \/ ModerationAudit(p) \/ ModerationAuditFails(p)
        \/ Cleanup(p) \/ CleanupFindFails(p)
        \/ CleanupDeleteMany(p) \/ CleanupDeleteManyFails(p)
        \/ CleanupBulkUpdate(p) \/ CleanupBulkUpdateFails(p)

SpecMod == Init /\ [][NextMod]_vars

\* The same, with every backend call resolving.
NextModOk ==
    \/ Tick
    \/ \E p \in Procs :
        \/ StoreStart(p, LifecycleInputs)
        \/ StoreKeyCreate(p) \/ StoreUpload(p) \/ StoreRecordCreate(p)
        \/ ExecuteBotAction(p) \/ HumanActionStart(p, LifecycleNotes)
        \/ ModerationUpdateStatus(p)
        \/ UpdateStatusDelete(p) \/ UpdateStatusUpdate(p)
        \/ ModerationAudit(p)
        \/ Cleanup(p) \/ CleanupDeleteMany(p) \/ CleanupBulkUpdate(p)

SpecModOk == Init /\ [][NextModOk]_vars

\* ------------------------------------------------------------- getContentAccess
\* The default validity of the signed URLs handed to admins, in seconds.
signedUrlExpiry == 300

\* The audit event of an admin's content access.
ViewEventOf(c) ==
    [eventType |-> "HUMAN_VIEW_CONTENT", actorId |-> c.by, targetId |-> c.id]

\* Mutant: the signed URL is requested without the audit entry.
ContentAccessFind_NoAudit(c, id, adminId) ==
    IF id \notin DOMAIN records THEN Settle(c, "NotFound", 0)
    ELSE [c EXCEPT !.pc = "urlFind", !.id = id, !.by = adminId]

\* getContentAccess after quarantine.getMetadata resolved: not found, or on to the
\* audit entry.
ContentAccessFind(c, id, adminId) ==
    IF id \notin DOMAIN records THEN Settle(c, "NotFound", 0)
    ELSE [c EXCEPT !.pc = "viewAudit", !.id = id, !.by = adminId]

GetContentAccess(p) ==
    /\ Begin(p)
    /\ \E id \in Uuids \cup {UnknownId} :
          calls' = [calls EXCEPT ![p] =
                       ContentAccessFind([IdleCall EXCEPT !.op = "getContentAccess"],
                                         id, AdminId)]
    /\ UNCHANGED <<crypto, ssg, limiter, now, records, keyRows, blobs, auditLog, uuidKey, uuidObj, uuidRec>>

GetContentAccessFails(p) ==
    /\ Begin(p)
    /\ calls' = [calls EXCEPT ![p] =
                    Settle([IdleCall EXCEPT !.op = "getContentAccess"], "DbError", 0)]
    /\ UNCHANGED <<crypto, ssg, limiter, now, records, keyRows, blobs, auditLog, uuidKey, uuidObj, uuidRec>>

\* audit.log resolves; quarantine.generateSignedUrl is called.
ContentAccessAudit(p) ==
    /\ calls[p].pc = "viewAudit"
    /\ auditLog' = auditLog \cup {ViewEventOf(calls[p])}
    /\ calls' = [calls EXCEPT ![p].pc = "urlFind"]
    /\ UNCHANGED <<crypto, ssg, limiter, now, records, keyRows, blobs, uuidKey, uuidObj, uuidRec, started>>

ContentAccessAuditFails(p) ==
    /\ calls[p].pc = "viewAudit"
    /\ calls' = [calls EXCEPT ![p] = Settle(calls[p], "AuditError", 0)]
    /\ UNCHANGED <<crypto, ssg, limiter, now, records, keyRows, blobs, auditLog, uuidKey, uuidObj, uuidRec, started>>

\* generateSignedUrl called by getContentAccess: its findByPk resolves.
ContentAccessUrlFind(p) ==
    /\ calls[p].pc = "urlFind"
    /\ calls' = [calls EXCEPT ![p] =
                    GenerateSignedUrlFind(calls[p], calls[p].id, signedUrlExpiry)]
    /\ UNCHANGED <<crypto, ssg, limiter, now, records, keyRows, blobs, auditLog, uuidKey, uuidObj, uuidRec, started>>

ContentAccessUrlFindFails(p) ==
    /\ calls[p].pc = "urlFind"
    /\ calls' = [calls EXCEPT ![p] = Settle(calls[p], "DbError", 0)]
    /\ UNCHANGED <<crypto, ssg, limiter, now, records, keyRows, blobs, auditLog, uuidKey, uuidObj, uuidRec, started>>

\* store and the admins' content access.
NextAccess ==
    \/ Tick
    \/ \E p \in Procs :
        \/ StoreStart(p, LifecycleInputs)
        \/ StoreKeyCreate(p) \/ StoreKeyCreateFails(p)
        \/ StoreUpload(p) \/ StoreUploadFails(p)
        \/ StoreRecordCreate(p) \/ StoreRecordCreateFails(p)
        \/ GetContentAccess(p) \/ GetContentAccessFails(p)
        \/ ContentAccessAudit(p) \/ ContentAccessAuditFails(p)
        \/ ContentAccessUrlFind(p) \/ ContentAccessUrlFindFails(p)
        \/ GenerateSignedUrlSign(p) \/ GenerateSignedUrlSignFails(p)

SpecAccess == Init /\ [][NextAccess]_vars

\* ------------------------------------------------------------- the bot queue
\* What the bot's queue request may carry: a tier filter, a page size, a page offset
\* (a tier of NULL, a number of <<>>: not given).
QueueTierInputs == {NULL, "CRITICAL"}
QueueLimitInputs == {<<>>, <<1>>}
QueueOffsetInputs == {<<>>, <<1>>}

ClampLimit(limit, max, defaultVal) ==
    IF limit = <<>> THEN defaultVal
    ELSE IF limit[1] < 1 THEN defaultVal
    ELSE IF limit[1] < max THEN limit[1] ELSE max

ClampOffset(offset) ==
    IF offset = <<>> THEN 0 ELSE IF offset[1] < 0 THEN 0 ELSE offset[1]

\* Date.prototype.toISOString: the instant as a string.
ToISOString(t) == [iso |-> t]

\* The plain attributes of the row of a record, as the query callback hands them to
\* the moderation service.  store is called without contentType and sourceId and
\* writes null for both; createdAt is the insert's timestamp, for which the model
\* takes the instant at which store read the clock.
RowOf(id) ==
    [id |-> id, contentType |-> NULL, sourceId |-> NULL,
     createdAt |-> records[id].expiresAt - ExpiryTicks] @@ records[id]

\* The summary sentence, by its parts.
GenerateSummary(tier, labels, matchCount) ==
    IF Len(labels) = 0 /\ matchCount = 0
    THEN [text |-> "Content flagged at <tier> tier with no specific pattern matches.",
          tier |-> tier, detected |-> <<>>, found |-> 0, plural |-> FALSE]
    ELSE [text |-> "<tier> risk.", tier |-> tier, detected |-> labels,
          found |-> matchCount, plural |-> matchCount > 1]

\* Mutant: the envelope also carries the record's object key.
BuildEnvelope_WithKey(record, matches) ==
    [id |-> record.id, tier |-> record.tier, labels |-> record.labels,
     matches |-> matches,
     summary |-> GenerateSummary(record.tier, record.labels, Len(matches)),
     contentType |-> record.contentType, sourceId |-> record.sourceId,
     quarantinedAt |-> ToISOString(record.createdAt),
     expiresAt |-> ToISOString(record.expiresAt),
     storageKey |-> record.s3Key]

BuildEnvelope(record, matches) ==
    [id |-> record.id, tier |-> record.tier, labels |-> record.labels,
     matches |-> matches,
     summary |-> GenerateSummary(record.tier, record.labels, Len(matches)),
     contentType |-> record.contentType, sourceId |-> record.sourceId,
     quarantinedAt |-> ToISOString(record.createdAt),
     expiresAt |-> ToISOString(record.expiresAt)]

\* The ids of the rows that match a query, in the order of their creation.
RECURSIVE Matching(_, _, _)
Matching(status, tier, from) ==
    IF \A id \in DOMAIN records : id < from THEN <<>>
    ELSE (IF /\ from \in DOMAIN records
             /\ records[from].status = status
             /\ tier = NULL \/ records[from].tier = tier
          THEN <<from>> ELSE <<>>) \o Matching(status, tier, from + 1)

\* The query callback: the matching rows of one page, and the count of all matches.
QueryQuarantine(status, tier, limit, offset) ==
    LET all == Matching(status, tier, 1)
        last == IF offset + limit < Len(all) THEN offset + limit ELSE Len(all)
    IN [items |-> [k \in 1..(IF last > offset THEN last - offset ELSE 0) |->
                      RowOf(all[offset + k])],
        total |-> Len(all)]

\* getQueue: the query resolves, and each row is mapped to its envelope.
GetQueueResult(c, tier, limitIn, offsetIn) ==
    LET limit == ClampLimit(limitIn, 100, 20)
        offset == ClampOffset(offsetIn)
        result == QueryQuarantine("QUARANTINED", tier, limit, offset)
    IN [Settle(c, "ok", result.total) EXCEPT
           !.found = [k \in 1..Len(result.items) |-> BuildEnvelope(result.items[k], <<>>)],
           !.idx = offset, !.ttl = limit]

GetQueue(p) ==
    /\ Begin(p)
    /\ \E tier \in QueueTierInputs, limit \in QueueLimitInputs, offset \in QueueOffsetInputs :
          calls' = [calls EXCEPT ![p] =
                       GetQueueResult([IdleCall EXCEPT !.op = "getQueue"], tier, limit, offset)]
    /\ UNCHANGED <<crypto, ssg, limiter, now, records, keyRows, blobs, auditLog, uuidKey, uuidObj, uuidRec>>

GetQueueFails(p) ==
    /\ Begin(p)
    /\ calls' = [calls EXCEPT ![p] =
                    Settle([IdleCall EXCEPT !.op = "getQueue"], "DbError", 0)]
    /\ UNCHANGED <<crypto, ssg, limiter, now, records, keyRows, blobs, auditLog, uuidKey, uuidObj, uuidRec>>

\* store and what the bot endpoints can do.
NextBot ==
    \/ Tick
    \/ \E p \in Procs :
        \/ StoreStart(p, LifecycleInputs)
        \/ StoreKeyCreate(p) \/ StoreKeyCreateFails(p)
        \/ StoreUpload(p) \/ StoreUploadFails(p)
        \/ StoreRecordCreate(p) \/ StoreRecordCreateFails(p)
        \/ GetQueue(p) \/ GetQueueFails(p)
        \/ ExecuteBotAction(p) \/ ModerationGetMetadataFails(p)
        \/ ModerationUpdateStatus(p) \/ ModerationUpdateStatusFindFails(p)
        \/ UpdateStatusDelete(p) \/ UpdateStatusDeleteFails(p)
        \/ UpdateStatusUpdate(p) \/ UpdateStatusUpdateFails(p)
        \/ ModerationAudit(p) \/ ModerationAuditFails(p)

SpecBot == Init /\ [][NextBot]_vars

\* ------------------------------------------------------------- the crypto engine alone
\* Two engines, each made from its own master key string, one plaintext, one process
\* (one randomBytes).
Engines == {1, 2}

\* Master key strings: the empty string, and strings of 22, 42, 43 and 44 base64
\* characters (16, 31, 32 and 33 bytes), two of each.
MasterKeyInputs ==
    {[chars |-> 0, seed |-> 0]}
        \cup {[chars |-> n, seed |-> k] : n \in {22, 42, 43, 44}, k \in {-1, -2}}

\* Plaintexts: empty, one zero byte, 'hi', three high bytes, 100 000 bytes.
Plaintexts ==
    {Bytes(<<>>), Bytes(<<0>>), Bytes(<<104, 105>>), Bytes(<<233, 128, 255>>),
     Opaque(100000, -9)}

PayloadFields == {"ciphertext", "authTag", "encryptedDek", "dekAuthTag"}

NoEngine == [state |-> "none", masterKey |-> Bytes(<<>>)]
NoDecrypt == [engine |-> 0, of |-> 0, altered |-> "none", result |-> DecryptionFailed]

InitCrypto ==
    /\ InitService
    /\ \E k1 \in MasterKeyInputs, k2 \in MasterKeyInputs, plaintext \in Plaintexts :
           crypto = [keyInputs |-> <<k1, k2>>, plaintext |-> plaintext,
                     engines |-> [e \in Engines |-> NoEngine],
                     payloads |-> <<>>, draws |-> 0, last |-> NoDecrypt]
    /\ ssg = NoSsg
    /\ limiter = NoLimiter

serviceVars == <<now, records, keyRows, blobs, calls, auditLog, uuidKey, uuidObj, uuidRec, started>>

\* createEncryptionService(masterKeyBase64): the engine, or the throw.
NewEngine_Truncating(masterKeyBase64) ==
    LET masterKey == Base64Decode(masterKeyBase64)
    IN IF masterKey.len < 32
       THEN [state |-> "error", masterKey |-> Bytes(<<>>)]
       ELSE [state |-> "ready", masterKey |-> [masterKey EXCEPT !.len = 32]]

NewEngine(masterKeyBase64) ==
    LET masterKey == Base64Decode(masterKeyBase64)
    IN IF masterKey.len # 32
       THEN [state |-> "error", masterKey |-> Bytes(<<>>)]
       ELSE [state |-> "ready", masterKey |-> masterKey]

CreateEncryptionService(e) ==
    /\ crypto.engines[e].state = "none"
    /\ crypto' = [crypto EXCEPT !.engines[e] = NewEngine(crypto.keyInputs[e])]
    /\ UNCHANGED <<serviceVars, ssg, limiter>>

\* engine e: encrypt(plaintext)
EncryptCall(e) ==
    /\ crypto.engines[e].state = "ready"
    /\ Len(crypto.payloads) < MaxEncrypts
    /\ crypto' = [crypto EXCEPT
           !.payloads = Append(@, [by |-> e,
               payload |-> Encrypt(crypto.engines[e].masterKey, crypto.plaintext,
                                   crypto.draws)]),
           !.draws = @ + 3]
    /\ UNCHANGED <<serviceVars, ssg, limiter>>

\* The payload with one byte of one field altered ("none": as it was made).
Altered(payload, field) ==
    CASE field = "ciphertext" -> [payload EXCEPT !.ciphertext = TamperCiphertext(@)]
      [] field = "authTag" -> [payload EXCEPT !.authTag = Tamper(@)]
      [] field = "encryptedDek" -> [payload EXCEPT !.encryptedDek = TamperCiphertext(@)]
      [] field = "dekAuthTag" -> [payload EXCEPT !.dekAuthTag = Tamper(@)]
      [] OTHER -> payload

\* engine e: decrypt(payload), on the i-th payload made, as made or altered
DecryptCall(e, i, field) ==
    /\ crypto.engines[e].state = "ready"
    /\ i \in DOMAIN crypto.payloads
    /\ crypto' = [crypto EXCEPT !.last =
           [engine |-> e, of |-> i, altered |-> field,
            result |-> Decrypt(crypto.engines[e].masterKey,
                               Altered(crypto.payloads[i].payload, field))]]
    /\ UNCHANGED <<serviceVars, ssg, limiter>>

NextCrypto ==
    \/ \E e \in Engines : CreateEncryptionService(e)
    \/ \E e \in Engines : EncryptCall(e)
    \/ \E e \in Engines, i \in 1..MaxEncrypts, field \in PayloadFields \cup {"none"} :
           DecryptCall(e, i, field)

SpecCrypto == InitCrypto /\ [][NextCrypto]_vars

\* ------------------------------------------------------------- the detection pipeline
\* maxScore: null is <<>>.
DEFAULT_THRESHOLDS ==
    << [tier |-> "CLEAR", minScore |-> 0, maxScore |-> <<0>>, action |-> "PASS"],
       [tier |-> "LOW", minScore |-> 1, maxScore |-> <<29>>, action |-> "PASS"],
       [tier |-> "MODERATE", minScore |-> 30, maxScore |-> <<59>>, action |-> "WARN"],
       [tier |-> "HIGH", minScore |-> 60, maxScore |-> <<84>>, action |-> "QUARANTINE"],
       [tier |-> "CRITICAL", minScore |-> 85, maxScore |-> <<>>, action |-> "BLOCK"] >>

\* The first threshold the clamped score falls in; CRITICAL / BLOCK when none.
MapScoreToTier(score, thresholds) ==
    LET clamped == IF score < 0 THEN 0 ELSE score
        hits == {i \in DOMAIN thresholds :
                    /\ clamped >= thresholds[i].minScore
                    /\ \/ thresholds[i].maxScore = <<>>
                       \/ clamped <= thresholds[i].maxScore[1]}
    IN IF hits = {}
       THEN [tier |-> "CRITICAL", verdict |-> "BLOCK"]
       ELSE LET first == CHOOSE i \in hits : \A j \in hits : i <= j
            IN [tier |-> thresholds[first].tier, verdict |-> thresholds[first].action]

Reqs == 1..MaxRequests

\* Total scores of the plugins' results: a negative one (PASS), one that warns, the
\* edges of HIGH (QUARANTINE) and the first that blocks.
SsgScores == {-5, 45, 60, 84, 85}

\* The labels the plugins found in the text.
SsgLabels == <<"SECRET_DETECTED", "AWS_KEY">>

\* The InspectionResult of a text whose plugin results add up to score, made at t.
InspectionResultOf(score, t) ==
    LET m == MapScoreToTier(score, DEFAULT_THRESHOLDS)
    IN [tier |-> m.tier, verdict |-> m.verdict, labels |-> SsgLabels, timestamp |-> t]

\* The text and metadata inspect hands to quarantine.store: content.text with the
\* result's tier and labels.
InspectStoreInput(result) ==
    {i \in AllInputs :
        /\ StoreInputs[i].tier = result.tier
        /\ StoreInputs[i].labels = result.labels}

\* The entry inspect hands to audit.log.
SsgAuditEvent(result) ==
    [type |-> "ssg_inspection", tier |-> result.tier, verdict |-> result.verdict,
     labels |-> result.labels, timestamp |-> result.timestamp]

IdleReq ==
    [pc |-> "idle", score |-> 0, canReject |-> FALSE, result |-> <<>>, slot |-> 0,
     stores |-> 0, audits |-> 0, ssgResult |-> <<>>, next |-> 0, status |-> 0]

\* createSSG(config), with or without a quarantine service and an audit logger.
InitSsg ==
    /\ InitService
    /\ crypto = NoCrypto
    /\ limiter = NoLimiter
    /\ \E quarantine \in BOOLEAN, audit \in BOOLEAN :
          ssg = [config |-> [quarantine |-> quarantine, audit |-> audit],
                 reqs |-> [r \in Reqs |-> IdleReq]]

\* The step of inspect after the quarantine part: audit.log is issued if an audit
\* logger is configured, else inspect returns.
AfterQuarantine == IF ssg.config.audit THEN "audit" ELSE "respond"

\* The middleware is given a request without body.text: it calls next at once.
MiddlewareNoText(r) ==
    /\ ssg.reqs[r].pc = "idle"
    /\ ssg' = [ssg EXCEPT !.reqs[r].pc = "finished", !.reqs[r].next = 1]
    /\ UNCHANGED <<serviceVars, crypto, limiter>>

\* The middleware is given a text and calls inspect; the plugins have run and the
\* verdict is not QUARANTINE, or no quarantine service is configured.
Inspect(r, score, canReject) ==
    LET result == InspectionResultOf(score, now)
    IN /\ ssg.reqs[r].pc = "idle"
       /\ ~(ssg.config.quarantine /\ result.verdict = "QUARANTINE")
       /\ ssg' = [ssg EXCEPT !.reqs[r] =
                     [IdleReq EXCEPT !.pc = AfterQuarantine, !.score = score,
                                     !.canReject = canReject, !.result = <<result>>]]
       /\ UNCHANGED <<serviceVars, crypto, limiter>>

\* The middleware is given a text and calls inspect; the plugins have run, the verdict
\* is QUARANTINE and inspect calls quarantine.store.
InspectStore(r, score, canReject) ==
    LET result == InspectionResultOf(score, now)
    IN /\ ssg.reqs[r].pc = "idle"
       /\ ssg.config.quarantine /\ result.verdict = "QUARANTINE"
       /\ \E p \in Procs :
             /\ \A o \in Reqs : ssg.reqs[o].pc = "store" => ssg.reqs[o].slot # p
             /\ StoreBegin(p, InspectStoreInput(result))
             /\ ssg' = [ssg EXCEPT !.reqs[r] =
                           [IdleReq EXCEPT !.pc = "store", !.score = score,
                                           !.canReject = canReject,
                                           !.result = <<result>>,
                                           !.slot = p, !.stores = 1]]

\* Mutant: a rejected store rejects inspect, and with it the middleware.
InspectAfterStore_Fatal(r) ==
    /\ ssg.reqs[r].pc = "store"
    /\ calls[ssg.reqs[r].slot].pc = "done"
    /\ ssg' = [ssg EXCEPT !.reqs[r].pc =
                  IF calls[ssg.reqs[r].slot].outcome = "ok" THEN AfterQuarantine
                  ELSE "finished"]
    /\ UNCHANGED <<serviceVars, crypto, limiter>>

\* quarantine.store has settled: resolved or rejected, inspect goes on.
InspectAfterStore(r) ==
    /\ ssg.reqs[r].pc = "store"
    /\ calls[ssg.reqs[r].slot].pc = "done"
    /\ ssg' = [ssg EXCEPT !.reqs[r].pc = AfterQuarantine]
    /\ UNCHANGED <<serviceVars, crypto, limiter>>

\* audit.log resolves and inspect returns.
InspectAudit(r) ==
    /\ ssg.reqs[r].pc = "audit"
    /\ auditLog' = auditLog \cup {SsgAuditEvent(ssg.reqs[r].result[1])}
    /\ ssg' = [ssg EXCEPT !.reqs[r].pc = "respond", !.reqs[r].audits = @ + 1]
    /\ UNCHANGED <<now, records, keyRows, blobs, calls, uuidKey, uuidObj, uuidRec, started,
                   crypto, limiter>>

\* audit.log rejects: inspect returns all the same.
InspectAuditFails(r) ==
    /\ ssg.reqs[r].pc = "audit"
    /\ ssg' = [ssg EXCEPT !.reqs[r].pc = "respond"]
    /\ UNCHANGED <<serviceVars, crypto, limiter>>

\* inspect has returned: the middleware attaches the result and answers 403 on BLOCK
\* (when the response can set a status), else calls next.
MiddlewareRespond(r) ==
    LET q == ssg.reqs[r]
        blocked == q.result[1].verdict = "BLOCK" /\ q.canReject
    IN /\ q.pc = "respond"
       /\ ssg' = [ssg EXCEPT !.reqs[r].pc = "finished",
                             !.reqs[r].ssgResult = q.result,
                             !.reqs[r].status = IF blocked THEN 403 ELSE 0,
                             !.reqs[r].next = IF blocked THEN 0 ELSE 1]
       /\ UNCHANGED <<serviceVars, crypto, limiter>>

NextSsg ==
    \/ \E r \in Reqs : MiddlewareNoText(r)
    \/ \E r \in Reqs, score \in SsgScores, canReject \in BOOLEAN :
          Inspect(r, score, canReject)
    \/ \E r \in Reqs, score \in SsgScores, canReject \in BOOLEAN :
          InspectStore(r, score, canReject)
    \/ \E r \in Reqs : InspectAfterStore(r)
    \/ \E r \in Reqs : InspectAudit(r)
    \/ \E r \in Reqs : InspectAuditFails(r)
    \/ \E r \in Reqs : MiddlewareRespond(r)
    \/ \E p \in Procs : StoreKeyCreate(p)
    \/ \E p \in Procs : StoreKeyCreateFails(p)
    \/ \E p \in Procs : StoreUpload(p)
    \/ \E p \in Procs : StoreUploadFails(p)
    \/ \E p \in Procs : StoreRecordCreate(p)
    \/ \E p \in Procs : StoreRecordCreateFails(p)

SpecSsg == InitSsg /\ [][NextSsg]_vars

\* ------------------------------------------------------------- the rate limiter
\* Multipliers are kept in tenths.
DEFAULT_TRUST_MULTIPLIERS ==
    [NEW |-> 5, ESTABLISHED |-> 10, VERIFIED |-> 20, PLATFORM_BOT |-> 100]

DEFAULT_PENALTIES ==
    [moderateContentLastHour |-> 8, quarantineLast24h |-> 5, multipleQuarantine7d |-> 1]

DEFAULT_LIMITS ==
    [POSTS |-> [perHour |-> 10, burstPerMinute |-> 3],
     COMMENTS |-> [perHour |-> 60, burstPerMinute |-> 10],
     MESSAGES |-> [perHour |-> 300, burstPerMinute |-> 30]]

DEFAULT_PREFIX == "rl:"

\* The clock of the rate limiter counts minutes.
MinuteWindow == 1
HourWindow == 60

\* The check calls looked at, and what they are given.
Checks == 1..MaxChecks
Agents == {"agent-1"}
TierInputs == {"POSTS"}
TrustInputs == {"NEW", "ESTABLISHED"}
PenaltyInputs == {<<>>, <<"quarantineLast24h">>, <<"quarantineLast24h", "unknown">>}

\* The cumulative penalty multiplier, as a fraction; unknown penalties are ignored.
RECURSIVE GetPenaltyMultiplier(_, _)
GetPenaltyMultiplier(activePenalties, penaltyConfig) ==
    IF Len(activePenalties) = 0 THEN [num |-> 1, den |-> 1]
    ELSE LET rest == GetPenaltyMultiplier(Tail(activePenalties), penaltyConfig)
             penalty == Head(activePenalties)
         IN IF penalty \in DOMAIN penaltyConfig
            THEN [num |-> penaltyConfig[penalty] * rest.num, den |-> 10 * rest.den]
            ELSE rest

CalculateEffectiveLimits(tier, trustLevel, activePenalties, limits, trustMultipliers, penaltyConfig) ==
    LET baseLimits == limits[tier]
        trustMultiplier == trustMultipliers[trustLevel]
        penaltyMultiplier == GetPenaltyMultiplier(activePenalties, penaltyConfig)
        floored(base) == (base * trustMultiplier * penaltyMultiplier.num)
                             \div (10 * penaltyMultiplier.den)
        atLeastOne(n) == IF n < 1 THEN 1 ELSE n
    IN [perHour |-> atLeastOne(floored(baseLimits.perHour)),
        burstPerMinute |-> atLeastOne(floored(baseLimits.burstPerMinute))]

BuildKey(agentId, tier, window) == <<DEFAULT_PREFIX, agentId, tier, window>>

LimiterKeys == {BuildKey(a, t, w) : a \in Agents, t \in TierInputs, w \in {"minute", "hour"}}

WindowOf(window) == IF window = "hour" THEN HourWindow ELSE MinuteWindow

\* A key that does not exist is an empty sorted set.
NoZset == [members |-> {}, expireAt |-> -1]

IdleCheck ==
    [pc |-> "idle", agentId |-> "", tier |-> "", perHour |-> 0, burstPerMinute |-> 0,
     outcome |-> "none", result |-> <<>>]

\* createRateLimiter(config) with the default limits, multipliers and penalties.
InitLimiter ==
    /\ InitService
    /\ crypto = NoCrypto
    /\ ssg = NoSsg
    /\ limiter = [clock |-> 0, zsets |-> [k \in LimiterKeys |-> NoZset], draws |-> 0,
                  reqs |-> [r \in Checks |-> IdleCheck]]

\* A minute passes; the keys whose time to live has run out are removed.
LimiterTick ==
    /\ limiter.clock < MaxTime
    /\ limiter' = [limiter EXCEPT
                      !.clock = @ + 1,
                      !.zsets = [k \in LimiterKeys |->
                                    IF limiter.zsets[k].expireAt = limiter.clock + 1
                                    THEN NoZset ELSE limiter.zsets[k]]]
    /\ UNCHANGED <<serviceVars, crypto, ssg>>

\* The MULTI pipeline of slidingWindowIncrement applied to a sorted set at time t:
\* zremrangebyscore(key, 0, windowStart), zadd(key, now, member), expire(key, ttl).
Pipeline(zset, t, window, n) ==
    [members |-> {m \in zset.members : m.score > t - WindowOf(window)}
                    \cup {[score |-> t, member |-> <<t, n>>]},
     expireAt |-> t + WindowOf(window)]

\* zcard
ZCard(zset) == Cardinality(zset.members)

\* The length of zrangebyscore(key, min, max).
ZCount(zset, min, max) ==
    Cardinality({m \in zset.members : m.score >= min /\ m.score <= max})

\* slidingWindowCount: the entries of the key with windowStart <= score <= now.
SlidingWindowCount(agentId, tier, window) ==
    ZCount(limiter.zsets[BuildKey(agentId, tier, window)],
           limiter.clock - WindowOf(window), limiter.clock)

Denied(q, current, limit, retryAfter) ==
    [q EXCEPT !.pc = "finished", !.outcome = "ok",
              !.result = <<[allowed |-> FALSE, current |-> current, limit |-> limit,
                            remaining |-> 0, retryAfter |-> retryAfter]>>]

\* check(agentId, tier, trustLevel, penalties): the effective limits are computed and
\* checkAndIncrement runs the pipeline on the minute window.
CheckBurst(r) ==
    /\ limiter.reqs[r].pc = "idle"
    /\ \A o \in Checks : o < r => limiter.reqs[o].pc # "idle"
    /\ \E agentId \in Agents, tier \in TierInputs, trustLevel \in TrustInputs,
          penalties \in PenaltyInputs :
          LET effective == CalculateEffectiveLimits(tier, trustLevel, penalties,
                               DEFAULT_LIMITS, DEFAULT_TRUST_MULTIPLIERS, DEFAULT_PENALTIES)
              key == BuildKey(agentId, tier, "minute")
              after == Pipeline(limiter.zsets[key], limiter.clock, "minute", limiter.draws)
              burstCount == ZCard(after)
              q == [IdleCheck EXCEPT !.agentId = agentId, !.tier = tier,
                                     !.perHour = effective.perHour,
                                     !.burstPerMinute = effective.burstPerMinute]
          IN limiter' = [limiter EXCEPT
                            !.zsets[key] = after,
                            !.draws = @ + 1,
                            !.reqs[r] = IF burstCount > effective.burstPerMinute
                                        THEN Denied(q, burstCount,
                                                    effective.burstPerMinute, 60)
                                        ELSE [q EXCEPT !.pc = "hour"]]
    /\ UNCHANGED <<serviceVars, crypto, ssg>>

\* The pipeline of the minute window fails: exec resolves to null and nothing was
\* applied, or zcard reports an error after zadd was applied.
CheckBurstFails(r) ==
    /\ limiter.reqs[r].pc = "idle"
    /\ \A o \in Checks : o < r => limiter.reqs[o].pc # "idle"
    /\ \E agentId \in Agents, tier \in TierInputs, applied \in BOOLEAN :
          LET key == BuildKey(agentId, tier, "minute")
          IN limiter' = [limiter EXCEPT
                            !.zsets[key] = IF applied
                                           THEN Pipeline(@, limiter.clock, "minute",
                                                         limiter.draws)
                                           ELSE @,
                            !.draws = IF applied THEN @ + 1 ELSE @,
                            !.reqs[r] = [IdleCheck EXCEPT !.pc = "finished",
                                                          !.agentId = agentId,
                                                          !.tier = tier,
                                                          !.outcome = "RedisError"]]
    /\ UNCHANGED <<serviceVars, crypto, ssg>>

\* checkAndIncrement runs the pipeline on the hour window and returns.
CheckHour(r) ==
    LET q == limiter.reqs[r]
        key == BuildKey(q.agentId, q.tier, "hour")
        after == Pipeline(limiter.zsets[key], limiter.clock, "hour", limiter.draws)
        hourlyCount == ZCard(after)
    IN /\ q.pc = "hour"
       /\ limiter' = [limiter EXCEPT
                         !.zsets[key] = after,
                         !.draws = @ + 1,
                         !.reqs[r] =
                            IF hourlyCount > q.perHour
                            THEN Denied(q, hourlyCount, q.perHour,
                                        (3600 + q.perHour - 1) \div q.perHour)
                            ELSE [q EXCEPT
                                     !.pc = "finished", !.outcome = "ok",
                                     !.result = <<[allowed |-> TRUE,
                                                   current |-> hourlyCount,
                                                   limit |-> q.perHour,
                                                   remaining |-> q.perHour - hourlyCount,
                                                   retryAfter |-> -1]>>]]
       /\ UNCHANGED <<serviceVars, crypto, ssg>>

CheckHourFails(r) ==
    LET q == limiter.reqs[r]
        key == BuildKey(q.agentId, q.tier, "hour")
    IN /\ q.pc = "hour"
       /\ \E applied \in BOOLEAN :
             limiter' = [limiter EXCEPT
                            !.zsets[key] = IF applied
                                           THEN Pipeline(@, limiter.clock, "hour",
                                                         limiter.draws)
                                           ELSE @,
                            !.draws = IF applied THEN @ + 1 ELSE @,
                            !.reqs[r] = [q EXCEPT !.pc = "finished",
                                                  !.outcome = "RedisError"]]
       /\ UNCHANGED <<serviceVars, crypto, ssg>>

NextLimiter ==
    \/ LimiterTick
    \/ \E r \in Checks :
        \/ CheckBurst(r) \/ CheckBurstFails(r)
        \/ CheckHour(r) \/ CheckHourFails(r)

SpecLimiter == InitLimiter /\ [][NextLimiter]_vars

\* ------------------------------------------------------------- the storage client
\* The object keys of a full bucket, and the lengths of the key lists deleteMany is
\* given: none, one, and the lengths around one and two full requests.
BucketKeys == [k \in 1..MaxKeys |-> S3KeyOf(0, k)]
KeyCounts == {0, 1, 999, 1000, 1001, 2000, 2001}

\* createStorageClient(config) on a bucket that holds MaxKeys objects.
InitStorage ==
    /\ now = 0
    /\ records = <<>>
    /\ keyRows = <<>>
    /\ blobs = [key \in Range(BucketKeys) |-> Raw(Bytes(<<>>))]
    /\ calls = [p \in Procs |-> IdleCall]
    /\ auditLog = {}
    /\ uuidKey = 0
    /\ uuidObj = 0
    /\ uuidRec = 0
    /\ started = 0
    /\ crypto = NoCrypto
    /\ ssg = NoSsg
    /\ limiter = NoLimiter

\* Mutant: each request leaves out the last key of its slice.
Slice_Short(list, i, j) == SubSeq(list, i + 1, Min(Len(list), j - 1))

\* keys.slice(i, j)
Slice(list, i, j) == SubSeq(list, i + 1, Min(Len(list), j))

\* deleteMany(keys) is called: it returns at once for an empty list, else it enters
\* its loop.  (row holds the requests sent so far.)
DeleteMany(p) ==
    /\ Begin(p)
    /\ started < MaxDeletes
    /\ \E n \in KeyCounts :
          LET c == [IdleCall EXCEPT !.op = "deleteMany", !.found = SubSeq(BucketKeys, 1, n)]
          IN calls' = [calls EXCEPT ![p] =
                          IF n = 0 THEN [c EXCEPT !.pc = "done", !.outcome = "ok"]
                          ELSE [c EXCEPT !.pc = "deleteObjects", !.idx = 0]]
    /\ UNCHANGED <<crypto, ssg, limiter, now, records, keyRows, blobs, auditLog, uuidKey, uuidObj, uuidRec>>

\* One round of the loop: the DeleteObjects request for the next slice resolves.
DeleteManySend(p) ==
    LET c == calls[p]
        batch == Slice(c.found, c.idx, c.idx + batchSize)
    IN /\ c.pc = "deleteObjects"
       /\ blobs' = Without(blobs, Range(batch))
       /\ calls' = [calls EXCEPT ![p] =
                       [c EXCEPT !.idx = @ + batchSize,
                                 !.row = Append(@, batch),
                                 !.pc = IF c.idx + batchSize < Len(c.found)
                                        THEN "deleteObjects" ELSE "done",
                                 !.outcome = IF c.idx + batchSize < Len(c.found)
                                             THEN "none" ELSE "ok"]]
       /\ UNCHANGED <<crypto, ssg, limiter, now, records, keyRows, auditLog, uuidKey, uuidObj, uuidRec, started>>

\* The DeleteObjects request rejects: deleteMany rejects with its error.
DeleteManySendFails(p) ==
    /\ calls[p].pc = "deleteObjects"
    /\ calls' = [calls EXCEPT ![p].pc = "done", ![p].outcome = "StorageError"]
    /\ UNCHANGED <<crypto, ssg, limiter, now, records, keyRows, blobs, auditLog, uuidKey, uuidObj, uuidRec, started>>

NextStorage ==
    \E p \in Procs :
        \/ DeleteMany(p)
        \/ DeleteManySend(p) \/ DeleteManySendFails(p)

SpecStorage == InitStorage /\ [][NextStorage]_vars

\* ------------------------------------------------------------- properties
\* Slot p's call took the step.
Stepped(p) == calls'[p] # calls[p]
\* The step starts a new call, in slot p.
Begun(p) == Free(p) /\ started' # started
\* No two calls have ever overlapped (slot 2 is taken only while slot 1 is busy).
Sequential == \A q \in Procs : q > 1 => calls[q].pc = "idle"
TerminalStatuses == {"RELEASED", "DELETED", "EXPIRED"}
\* The object keys a sweep collected.
FoundKeys(c) == {records[c.found[k]].s3Key : k \in 1..Len(c.found)}
\* The records a sweep at time t must find, stated from the specification.
DueAt(recs, t) ==
    {id \in DOMAIN recs :
        recs[id].status \in {"QUARANTINED", "UNDER_REVIEW"} /\ recs[id].expiresAt <= t}

\* C1: updateStatus(id, DELETED) deletes the record's blob before it writes the
\* metadata row.  If the blob delete fails the call fails with the storage error and
\* the row (status and review fields) is unchanged; if the call returns, the blob is
\* absent and the status is DELETED.
C1_DeleteBeforeUpdate ==
    [][\A p \in Procs :
        LET c == calls[p]
            d == calls'[p]
        IN (c.op = "updateStatus" /\ c.status = "DELETED" /\ Stepped(p)) =>
              /\ c.pc = "delete" =>
                    /\ records' = records
                    /\ \/ d.pc = "update" /\ c.s3Key \notin objects'
                       \/ /\ d.pc = "done" /\ d.outcome = "StorageError"
                          /\ objects' = objects
              /\ c.pc = "update" =>
                    /\ c.s3Key \notin objects
                    /\ d.pc = "done"
                    /\ d.outcome = "ok" =>
                          records'[c.id].status = "DELETED" /\ c.s3Key \notin objects'
      ]_vars

\* One record deleted (blob gone, status DELETED) and one whose delete failed (blob
\* and status kept).
C1_Witness ==
    /\ \E id \in DOMAIN records :
          records[id].status = "DELETED" /\ records[id].s3Key \notin objects
    /\ \E id \in DOMAIN records :
          records[id].status = "QUARANTINED" /\ records[id].s3Key \in objects
    /\ \E p \in Procs : calls[p].op = "updateStatus" /\ calls[p].outcome = "StorageError"

\* C2, as claimed: however an updateStatus(id, DELETED) call on an existing record
\* ends, the record's blob is absent iff its status is DELETED.
C2_NoDivergence ==
    [][\A p \in Procs :
        LET c == calls[p]
        IN (/\ c.op = "updateStatus" /\ c.status = "DELETED"
            /\ c.pc \in {"delete", "update"} /\ calls'[p].pc = "done") =>
              ((c.s3Key \notin objects') <=> (records'[c.id].status = "DELETED"))
      ]_vars

\* C2, amended: an updateStatus(id, DELETED) call that returns leaves the blob absent
\* and the status DELETED; one that fails at the blob delete has changed neither the
\* object store nor the row; one that fails at the metadata update has deleted the
\* blob and left the row as it was (there storage and metadata diverge).
C2_DivergesOnlyOnUpdateFailure ==
    [][\A p \in Procs :
        LET c == calls[p]
            d == calls'[p]
        IN (/\ c.op = "updateStatus" /\ c.status = "DELETED"
            /\ c.pc \in {"delete", "update"} /\ d.pc = "done") =>
              /\ d.outcome \in {"ok", "StorageError", "DbError"}
              /\ d.outcome = "ok" =>
                    c.s3Key \notin objects' /\ records'[c.id].status = "DELETED"
              /\ d.outcome = "StorageError" =>
                    c.pc = "delete" /\ objects' = objects /\ records' = records
              /\ d.outcome = "DbError" =>
                    c.pc = "update" /\ c.s3Key \notin objects' /\ records' = records
      ]_vars

\* A failed updateStatus call has left a record the sweep never touched without its
\* blob and not DELETED.
C2_Witness ==
    /\ \E p \in Procs : calls[p].op = "updateStatus" /\ calls[p].outcome = "DbError"
    /\ \E id \in DOMAIN records :
          /\ records[id].status = "QUARANTINED" /\ records[id].expiresAt > now
          /\ records[id].reviewedBy = NULL /\ records[id].s3Key \notin objects

\* C3: the sweep finds exactly the records whose status is QUARANTINED or UNDER_REVIEW
\* and whose expiresAt <= now, deletes their blobs and no other, marks exactly them
\* EXPIRED changing nothing else, and returns how many they are.
C3_SweepExact ==
    [][\A p \in Procs :
        LET c == calls[p]
            d == calls'[p]
        IN /\ (Begun(p) /\ d.op = "cleanup" /\ d.outcome # "DbError") =>
                /\ records' = records /\ objects' = objects
                /\ IF DueAt(records, now) = {}
                   THEN d.pc = "done" /\ d.outcome = "ok" /\ d.ret = 0
                   ELSE /\ d.pc = "deleteMany"
                        /\ Range(d.found) = DueAt(records, now)
                        /\ Len(d.found) = Cardinality(DueAt(records, now))
           /\ (c.op = "cleanup" /\ c.pc = "deleteMany" /\ Stepped(p)) =>
                /\ records' = records
                /\ objects' \subseteq objects
                /\ (objects \ objects') \subseteq FoundKeys(c)
                /\ d.pc = "bulkUpdate" => objects' \cap FoundKeys(c) = {}
           /\ (c.op = "cleanup" /\ c.pc = "bulkUpdate" /\ d.outcome = "ok") =>
                /\ d.ret = Cardinality(Range(c.found))
                /\ objects' = objects
                /\ DOMAIN records' = DOMAIN records
                /\ \A id \in DOMAIN records :
                      records'[id] = IF id \in Range(c.found)
                                     THEN [records[id] EXCEPT !.status = "EXPIRED"]
                                     ELSE records[id]
      ]_vars

\* A sweep returned 1: one record is EXPIRED without its blob, while a RELEASED record
\* past its expiry still has its status and its blob.
C3_Witness ==
    /\ \E p \in Procs :
          calls[p].op = "cleanup" /\ calls[p].outcome = "ok" /\ calls[p].ret = 1
    /\ \E a, b \in DOMAIN records :
          /\ records[a].status = "EXPIRED" /\ records[a].s3Key \notin objects
          /\ records[b].status = "RELEASED" /\ records[b].expiresAt <= now
          /\ records[b].s3Key \in objects

\* C4: when the batch delete throws, the sweep ends with that error and writes no row;
\* a sweep reaches its bulk update only with every blob it collected deleted, and no
\* other step of a sweep writes a row.
C4_DeleteFailureAborts ==
    [][\A p \in Procs :
        LET c == calls[p]
            d == calls'[p]
        IN /\ (c.op = "cleanup" /\ c.pc = "deleteMany" /\ Stepped(p)) =>
                /\ records' = records
                /\ \/ d.pc = "done" /\ d.outcome = "StorageError"
                   \/ d.pc = "deleteMany"
                   \/ d.pc = "bulkUpdate" /\ objects' \cap FoundKeys(c) = {}
           /\ (c.op = "cleanup" /\ c.pc = "bulkUpdate") => objects \cap FoundKeys(c) = {}
      ]_vars

\* A sweep failed with the storage error and the record it found is still active,
\* expired and stored.
C4_Witness ==
    /\ \E p \in Procs : calls[p].op = "cleanup" /\ calls[p].outcome = "StorageError"
    /\ \E id \in DOMAIN records :
          /\ records[id].status \in ActiveStatuses /\ records[id].expiresAt <= now
          /\ records[id].s3Key \in objects

\* C5: the sweep is idempotent.  A sweep that finds nothing returns 0 and touches
\* neither store; after a successful sweep that no other call overlapped, no record
\* is due at that sweep's time (so a second sweep on the same input finds nothing);
\* a sweep whose blobs are already gone deletes nothing more, goes on and marks its
\* records EXPIRED.
C5_SweepIdempotent ==
    [][\A p \in Procs :
        LET c == calls[p]
            d == calls'[p]
        IN /\ (Begun(p) /\ d.op = "cleanup" /\ d.outcome # "DbError"
                 /\ DueAt(records, now) = {}) =>
                /\ d.pc = "done" /\ d.outcome = "ok" /\ d.ret = 0
                /\ records' = records /\ objects' = objects
           /\ (c.op = "cleanup" /\ c.pc = "bulkUpdate" /\ d.outcome = "ok" /\ Sequential') =>
                DueAt(records', c.at) = {}
           /\ (c.op = "cleanup" /\ c.pc = "deleteMany" /\ d.pc = "bulkUpdate"
                 /\ objects \cap FoundKeys(c) = {}) =>
                objects' = objects
           /\ (c.op = "cleanup" /\ c.pc = "bulkUpdate" /\ d.outcome = "ok") =>
                \A id \in Range(c.found) : records'[id].status = "EXPIRED"
      ]_vars

\* A sweep is about to delete, once more, blobs that an earlier attempt already
\* deleted before it failed: no call has overlapped another, and its records are
\* still active.
C5_Witness ==
    /\ Sequential
    /\ calls[1].op = "cleanup" /\ calls[1].pc = "deleteMany"
    /\ Len(calls[1].found) > 0
    /\ objects \cap FoundKeys(calls[1]) = {}
    /\ ENABLED CleanupDeleteMany(1)

\* C6: no fencing.  The write of updateStatus sets the status it was asked for and the
\* sweep's bulk update sets EXPIRED on every record the sweep found, whatever status
\* the row has by then; neither write is ever blocked by the state of the row.  So
\* the last write to land decides the status.
C6_LastWriteWins ==
    /\ [](\A p \in Procs :
            /\ calls[p].pc = "update" => ENABLED UpdateStatusUpdate(p)
            /\ calls[p].pc = "bulkUpdate" => ENABLED CleanupBulkUpdate(p))
    /\ [][\A p \in Procs :
            LET c == calls[p]
                d == calls'[p]
            IN /\ (c.op = "updateStatus" /\ c.pc = "update" /\ d.outcome = "ok") =>
                    records'[c.id].status = c.status
               /\ (c.op = "cleanup" /\ c.pc = "bulkUpdate" /\ d.outcome = "ok") =>
                    \A id \in Range(c.found) : records'[id].status = "EXPIRED"
               /\ (c.pc \in {"update", "bulkUpdate"} /\ Stepped(p)) =>
                    d.outcome \in {"ok", "DbError"}
         ]_vars

\* A sweep that found the record and an updateStatus(id, RELEASED) overlapped and both
\* returned; the release landed last: the record is RELEASED and its blob is gone.
C6_Witness ==
    /\ uuidKey = 1 /\ started = 3
    /\ \E p, q \in Procs :
          /\ calls[p].op = "cleanup" /\ calls[p].outcome = "ok" /\ calls[p].ret = 1
          /\ calls[q].op = "updateStatus" /\ calls[q].outcome = "ok"
    /\ 1 \in DOMAIN records /\ records[1].status = "RELEASED"
    /\ records[1].s3Key \notin objects

\* C7, as claimed: through the moderation workflow and the sweep, a record that is
\* RELEASED, DELETED or EXPIRED never changes status again.
C7_TerminalStatusesStay ==
    [][\A id \in DOMAIN records :
          records[id].status \in TerminalStatuses =>
              records'[id].status = records[id].status
      ]_vars

\* The edges of the specification's state machine.
SpecEdges ==
    ({"QUARANTINED"} \X {"UNDER_REVIEW", "RELEASED", "DELETED", "EXPIRED"})
        \cup ({"UNDER_REVIEW"} \X {"RELEASED", "DELETED"})

\* C8, as claimed: through the moderation workflow and the sweep, every status change
\* follows QUARANTINED -> UNDER_REVIEW | RELEASED | DELETED | EXPIRED or
\* UNDER_REVIEW -> RELEASED | DELETED.
C8_OnlySpecEdges ==
    [][\A id \in DOMAIN records :
          records'[id].status # records[id].status =>
              <<records[id].status, records'[id].status>> \in SpecEdges
      ]_vars

\* C9: the lifecycle service enforces no transition rule.  For every pair (current
\* status, new status) an updateStatus call that gets to its write sets the new
\* status; a call is refused only for an id that has no record, and reaches its write
\* for every other id.
C9_NoTransitionRule ==
    [][\A p \in Procs :
        LET c == calls[p]
            d == calls'[p]
        IN /\ \A from, to \in QuarantineStatus :
                (/\ c.op = "updateStatus" /\ c.pc = "update" /\ d.outcome = "ok"
                 /\ records[c.id].status = from /\ c.status = to) =>
                    records'[c.id].status = to
           /\ (Begun(p) /\ d.op = "updateStatus") =>
                \/ d.outcome = "DbError"
                \/ d.outcome = "NotFound" /\ d.id \notin DOMAIN records
                \/ /\ d.id \in DOMAIN records
                   /\ d.pc = IF d.status = "DELETED" THEN "delete" ELSE "update"
      ]_vars

\* An updateStatus(id, QUARANTINED) call has found a record that is EXPIRED and its
\* write is the next step it can take.
C9_Witness ==
    \E p \in Procs :
        /\ calls[p].op = "updateStatus" /\ calls[p].pc = "update"
        /\ calls[p].status = "QUARANTINED"
        /\ records[calls[p].id].status = "EXPIRED"
        /\ ENABLED UpdateStatusUpdate(p)

\* C10: every quarantine record's encryptionKeyId names an encryption key row that
\* exists, and that already existed in the state before the record was inserted.
C10_KeyPersistedFirst ==
    [][\A id \in DOMAIN records' :
          /\ records'[id].encryptionKeyId \in keys'
          /\ id \notin DOMAIN records => records'[id].encryptionKeyId \in keys
      ]_vars

\* Two store calls overlapped, one failed after its key row was written, and the
\* record of the other refers to its own, later key.
C10_Witness ==
    /\ Cardinality(keys) = 2
    /\ \E id \in DOMAIN records : records[id].encryptionKeyId # id
    /\ \E p \in Procs : calls[p].op = "store" /\ calls[p].outcome = "StorageError"

\* A store call in flight holds key id k.
KeyHeld(k) ==
    \E p \in Procs :
        /\ calls[p].op = "store" /\ calls[p].pc \in {"keyCreate", "upload", "create"}
        /\ calls[p].keyId = k
\* Some record refers to key row k.
Referenced(k) == \E id \in DOMAIN records : records[id].encryptionKeyId = k

\* C11: within a store call the upload completes before the record is inserted.  A
\* store call gets to its insert only from its upload, and only when the upload
\* succeeded; when the upload fails the call ends with the storage error and inserts
\* nothing.  So every record that is inserted has the storage key of the call that
\* inserts it, and that key holds the blob the call uploaded.
C11_UploadBeforeInsert ==
    [][\A p \in Procs :
        LET c == calls[p]
            d == calls'[p]
        IN /\ (c.op = "store" /\ c.pc = "upload" /\ Stepped(p)) =>
                /\ records' = records
                /\ \/ d.pc = "create" /\ d.s3Key = c.s3Key /\ c.s3Key \in objects'
                   \/ d.pc = "done" /\ d.outcome = "StorageError" /\ objects' = objects
           /\ (d.op = "store" /\ d.pc = "create" /\ Stepped(p)) =>
                c.op = "store" /\ c.pc = "upload"
           /\ (c.op = "store" /\ c.pc # "create" /\ Stepped(p)) => records' = records
           /\ (c.op = "store" /\ c.pc = "create" /\ Stepped(p)) =>
                /\ c.s3Key \in objects
                /\ \A id \in DOMAIN records' \ DOMAIN records :
                      records'[id].s3Key = c.s3Key
      ]_vars

\* One store call failed at its upload and left no record and no blob; another
\* uploaded and inserted its record.
C11_Witness ==
    /\ uuidObj = 2
    /\ Cardinality(DOMAIN records) = 1 /\ Cardinality(objects) = 1
    /\ \E id \in DOMAIN records : records[id].s3Key \in objects
    /\ \E p \in Procs : calls[p].op = "store" /\ calls[p].outcome = "StorageError"
    /\ \E p \in Procs : calls[p].op = "store" /\ calls[p].outcome = "ok"

\* C12: a successful store call creates exactly one key row (when EncryptionKey.create
\* resolves), exactly one blob (when the upload resolves) and exactly one record (when
\* QuarantineRecord.create resolves), each new, and no step of it creates or changes
\* anything else.  The record has the id the call returns, its encryptionKeyId is the
\* id of the call's key row and its s3Key is the key the call uploaded to; both exist.
C12_OneOfEachLinked ==
    [][\A p \in Procs :
        LET c == calls[p]
            d == calls'[p]
        IN /\ (Begun(p) /\ d.op = "store") =>
                records' = records /\ keys' = keys /\ objects' = objects
           /\ (c.op = "store" /\ c.pc = "keyCreate" /\ Stepped(p)) =>
                /\ records' = records /\ objects' = objects
                /\ IF d.pc = "upload"
                   THEN c.keyId \notin keys /\ keys' = keys \cup {c.keyId}
                   ELSE keys' = keys
           /\ (c.op = "store" /\ c.pc = "upload" /\ Stepped(p)) =>
                /\ records' = records /\ keys' = keys
                /\ IF d.pc = "create"
                   THEN c.s3Key \notin objects /\ objects' = objects \cup {c.s3Key}
                   ELSE objects' = objects
           /\ (c.op = "store" /\ c.pc = "create" /\ Stepped(p)) =>
                /\ keys' = keys /\ objects' = objects
                /\ IF d.outcome = "ok"
                   THEN /\ d.ret \notin DOMAIN records
                        /\ DOMAIN records' = DOMAIN records \cup {d.ret}
                        /\ \A id \in DOMAIN records :
                              /\ records'[id] = records[id]
                              /\ records[id].encryptionKeyId # c.keyId
                              /\ records[id].s3Key # c.s3Key
                        /\ records'[d.ret].encryptionKeyId = c.keyId
                        /\ records'[d.ret].s3Key = c.s3Key
                        /\ c.keyId \in keys /\ c.s3Key \in objects
                   ELSE records' = records
      ]_vars

\* Two store calls have returned, one after the other: two key rows, two blobs and
\* two records, each record with its own key row and its own blob.
C12_Witness ==
    /\ started = 2 /\ Sequential
    /\ calls[1].op = "store" /\ calls[1].outcome = "ok" /\ calls[1].ret = 2
    /\ Cardinality(keys) = 2 /\ Cardinality(objects) = 2
    /\ DOMAIN records = {1, 2}
    /\ records[1].encryptionKeyId = 1 /\ records[2].encryptionKeyId = 2
    /\ records[1].s3Key # records[2].s3Key
    /\ {records[1].s3Key, records[2].s3Key} = objects

\* C13: when the upload of a store call fails, the call ends with the storage error,
\* its key row stays in the table, and no record is inserted; no key row is ever
\* removed, and a key row that no record refers to and no store call in flight holds
\* is never referred to by a record afterwards.
C13_UploadFailureOrphansKey ==
    [][/\ \A p \in Procs :
            LET c == calls[p]
                d == calls'[p]
            IN (c.op = "store" /\ c.pc = "upload" /\ d.pc = "done") =>
                  /\ d.outcome = "StorageError"
                  /\ c.keyId \in keys /\ keys' = keys
                  /\ records' = records /\ objects' = objects
                  /\ ~Referenced(c.keyId)' /\ ~KeyHeld(c.keyId)'
       /\ \A k \in keys :
            /\ k \in keys'
            /\ (~Referenced(k) /\ ~KeyHeld(k)) => (~Referenced(k)' /\ ~KeyHeld(k)')
      ]_vars

\* A store call failed at its upload; its key row is still there and belongs to no
\* record and no call, while a later store call has inserted a record with a key row
\* of its own.
C13_Witness ==
    /\ \E p \in Procs : calls[p].op = "store" /\ calls[p].outcome = "StorageError"
    /\ 1 \in keys /\ ~Referenced(1) /\ ~KeyHeld(1)
    /\ 2 \in keys /\ Referenced(2)
    /\ Cardinality(objects) = 1

\* The byte length of each input's content in UTF-8, counted by hand: "hi" is 2
\* bytes, U+00E9 U+20AC is 2 + 3 bytes.
PlaintextBytes == <<2, 5>>

\* C14: the record a store call inserts has status QUARANTINED, expiresAt = the time
\* the call read the clock + the TTL, which lies between the call's start + TTL and
\* the call's end + TTL, sizeBytes = the byte length of the plaintext, and the
\* caller's tier and labels; the TTL is 72 hours when none is configured; and
\* getMetadata of an id that has a record returns that record as it is.
C14_StoredRecord ==
    [][/\ ExpiryHoursOf(<<>>) = 72 /\ ExpiryHoursOf(<<24>>) = 24
       /\ \A p \in Procs :
            LET c == calls[p]
                d == calls'[p]
            IN /\ (c.op = "store" /\ c.pc = "create" /\ d.outcome = "ok") =>
                    LET r == records'[d.ret]
                    IN /\ r.status = "QUARANTINED"
                       /\ r.expiresAt = c.at + ExpiryTicks
                       /\ c.t0 + ExpiryTicks <= r.expiresAt
                       /\ r.expiresAt <= now' + ExpiryTicks
                       /\ r.sizeBytes = PlaintextBytes[c.input]
                       /\ r.tier = StoreInputs[c.input].tier
                       /\ r.labels = StoreInputs[c.input].labels
                       /\ r.reviewedBy = NULL /\ r.reviewNotes = NULL
               /\ (Begun(p) /\ d.op = "getMetadata" /\ d.outcome = "ok"
                     /\ d.id \in DOMAIN records) =>
                    d.row = <<records[d.id]>> /\ records' = records
      ]_vars

\* getMetadata has returned the record of an earlier store call of the second input
\* (5 bytes, CRITICAL, no labels), and another store call, started at 0, read the
\* clock at 1 and is about to insert its record at 2.
C14_Witness ==
    \E p, q \in Procs :
        /\ calls[p].op = "store" /\ calls[p].pc = "create"
        /\ calls[p].t0 = 0 /\ calls[p].at = 1 /\ now = 2
        /\ ENABLED StoreRecordCreate(p)
        /\ calls[q].op = "getMetadata" /\ calls[q].outcome = "ok"
        /\ calls[q].id \in DOMAIN records
        /\ calls[q].row = <<records[calls[q].id]>>
        /\ records[calls[q].id].status = "QUARANTINED"
        /\ records[calls[q].id].sizeBytes = 5
        /\ records[calls[q].id].tier = "CRITICAL"
        /\ records[calls[q].id].labels = <<>>
        /\ records[calls[q].id].expiresAt = ExpiryTicks

\* C15: updateStatus on an id that has no record fails with not-found at once,
\* whatever the requested status: it never gets to the blob delete or to the write
\* (those are reached only with an id that has a record), and the step changes no
\* record, key row or blob.
C15_UnknownIdNotFound ==
    [][\A p \in Procs :
        LET c == calls[p]
            d == calls'[p]
        IN /\ (Begun(p) /\ d.op = "updateStatus") =>
                /\ records' = records /\ keys' = keys /\ objects' = objects
                /\ (d.outcome # "DbError" /\ d.id \notin DOMAIN records) =>
                      d.pc = "done" /\ d.outcome = "NotFound"
           /\ (c.op = "updateStatus" /\ c.pc \in {"delete", "update"}) =>
                c.id \in DOMAIN records
      ]_vars

\* updateStatus on an id no store call ever returned has failed with not-found; the
\* one record there is still has its status and its blob.
C15_Witness ==
    /\ \E p \in Procs :
          /\ calls[p].op = "updateStatus" /\ calls[p].outcome = "NotFound"
          /\ calls[p].id = UnknownId
    /\ DOMAIN records = {1}
    /\ records[1].status = "QUARANTINED" /\ records[1].s3Key \in objects

\* C16: an updateStatus call whose new status is not DELETED goes straight from its
\* lookup to its write, never to the blob delete, and none of its steps changes the
\* set of stored blobs.
C16_OnlyDeletedTouchesStore ==
    [][\A p \in Procs :
        LET c == calls[p]
            d == calls'[p]
        IN /\ (Begun(p) /\ d.op = "updateStatus") =>
                /\ objects' = objects
                /\ d.status \in (QuarantineStatus \ {"DELETED"}) => d.pc = "update"
           /\ (/\ c.op = "updateStatus" /\ c.pc \in {"delete", "update"}
               /\ c.status # "DELETED" /\ Stepped(p)) =>
                c.pc = "update" /\ d.pc = "done" /\ objects' = objects
      ]_vars

\* Two updateStatus calls have returned, one to UNDER_REVIEW and one to RELEASED, and
\* both records still have their blobs.
C16_Witness ==
    /\ DOMAIN records = {1, 2}
    /\ {records[1].status, records[2].status} = {"UNDER_REVIEW", "RELEASED"}
    /\ records[1].s3Key \in objects /\ records[2].s3Key \in objects
    /\ \E p \in Procs : calls[p].op = "updateStatus" /\ calls[p].outcome = "ok"

\* The review fields of a row.
ReviewFields(r) == <<r.reviewedBy, r.reviewedAt, r.reviewNotes>>

\* C17, as claimed: the write of an updateStatus call that names a reviewer sets
\* reviewedBy, sets reviewedAt to the time the call read and stores the notes if
\* given; the write of a call that names no reviewer, with or without notes, leaves
\* reviewedBy, reviewedAt and reviewNotes as they were, and so does every step of the
\* sweep.
C17_ReviewFieldsOnlyWithReviewer ==
    [][\A p \in Procs :
        LET c == calls[p]
            d == calls'[p]
        IN /\ (c.op = "updateStatus" /\ c.pc = "update" /\ d.outcome = "ok") =>
                IF c.by # NULL
                THEN /\ records'[c.id].reviewedBy = c.by
                     /\ records'[c.id].reviewedAt = c.at
                     /\ records'[c.id].reviewNotes =
                            IF c.notes # NULL THEN c.notes ELSE records[c.id].reviewNotes
                ELSE ReviewFields(records'[c.id]) = ReviewFields(records[c.id])
           /\ (c.op = "cleanup" /\ Stepped(p)) =>
                \A id \in DOMAIN records :
                    ReviewFields(records'[id]) = ReviewFields(records[id])
      ]_vars

\* C18: getMetadata is a pure read.  It is one lookup that changes no record, key row
\* or blob; it never fails with not-found: for an id without a record it returns
\* null, for an id with a record it returns the row as it is at that moment.
C18_GetMetadataPure ==
    [][\A p \in Procs :
        LET d == calls'[p]
        IN (Begun(p) /\ d.op = "getMetadata") =>
              /\ records' = records /\ keys' = keys /\ objects' = objects
              /\ d.pc = "done"
              /\ d.outcome \in {"ok", "DbError"}
              /\ d.outcome = "ok" =>
                    d.row = IF d.id \in DOMAIN records THEN <<records[d.id]>> ELSE <<>>
      ]_vars

\* One getMetadata call returned null for an id without a record; another returned
\* a record as an updateStatus call with a reviewer left it: RELEASED, reviewed by
\* admin-1.
C18_Witness ==
    \E p, q \in Procs :
        /\ calls[p].op = "getMetadata" /\ calls[p].outcome = "ok"
        /\ calls[p].id \notin DOMAIN records /\ calls[p].row = <<>>
        /\ calls[q].op = "getMetadata" /\ calls[q].outcome = "ok"
        /\ calls[q].id \in DOMAIN records
        /\ calls[q].row = <<records[calls[q].id]>>
        /\ calls[q].row[1].status = "RELEASED"
        /\ calls[q].row[1].reviewedBy = "admin-1"

\* C19: generateSignedUrl fails with not-found for an id without a record, without
\* asking the storage client; for an id with a record it asks the storage client to
\* sign the record's s3Key with the given expirySeconds and returns exactly what the
\* client returns; no step of it changes a record, a key row or a blob.
C19_SignedUrlDelegates ==
    [][\A p \in Procs :
        LET c == calls[p]
            d == calls'[p]
        IN /\ (Begun(p) /\ d.op = "generateSignedUrl") =>
                /\ records' = records /\ keys' = keys /\ objects' = objects
                /\ d.outcome # "DbError" =>
                      IF d.id \in DOMAIN records
                      THEN /\ d.pc = "sign" /\ d.s3Key = records[d.id].s3Key
                           /\ d.ttl \in ExpirySecondsInputs
                      ELSE d.pc = "done" /\ d.outcome = "NotFound"
           /\ (c.op = "generateSignedUrl" /\ c.pc = "sign") =>
                c.id \in DOMAIN records /\ c.s3Key = records[c.id].s3Key
           /\ (c.op = "generateSignedUrl" /\ c.pc = "sign" /\ Stepped(p)) =>
                /\ records' = records /\ keys' = keys /\ objects' = objects
                /\ d.pc = "done" /\ d.outcome \in {"ok", "StorageError"}
                /\ d.outcome = "ok" =>
                      d.url = <<GetSignedUrl(records[c.id].s3Key, c.ttl, now)>>
      ]_vars

\* One generateSignedUrl call failed with not-found; another returned the URL the
\* storage client signed for the record's s3Key and 3600 seconds.
C19_Witness ==
    \E p, q \in Procs :
        /\ calls[p].op = "generateSignedUrl" /\ calls[p].outcome = "NotFound"
        /\ calls[p].id \notin DOMAIN records
        /\ calls[q].op = "generateSignedUrl" /\ calls[q].outcome = "ok"
        /\ 1 \in DOMAIN records
        /\ calls[q].url = <<GetSignedUrl(records[1].s3Key, 3600, now)>>

\* A store call in flight.
StoreInFlight(p) ==
    calls[p].op = "store" /\ calls[p].pc \in {"keyCreate", "upload", "create"}

\* C20: store calls, also two of the same content and in any interleaving, are
\* independent.  No two records share an id, a key row or a storage key, and no two
\* calls in flight hold the same key id or storage key; the next step of a call in
\* flight can always be taken, whatever the other call has done (no call blocks or
\* fails another); and no step of a store call changes an existing record or removes
\* a key row or a blob.
C20_ConcurrentStoresIndependent ==
    /\ [](/\ \A a, b \in DOMAIN records :
              a # b =>
                  /\ records[a].s3Key # records[b].s3Key
                  /\ records[a].encryptionKeyId # records[b].encryptionKeyId
          /\ \A p, q \in Procs :
              (p # q /\ StoreInFlight(p) /\ StoreInFlight(q)) =>
                  /\ calls[p].keyId # calls[q].keyId
                  /\ (calls[p].pc # "keyCreate" /\ calls[q].pc # "keyCreate") =>
                         calls[p].s3Key # calls[q].s3Key
          /\ \A p \in Procs :
              /\ (calls[p].op = "store" /\ calls[p].pc = "keyCreate") =>
                    ENABLED StoreKeyCreate(p)
              /\ (calls[p].op = "store" /\ calls[p].pc = "upload") =>
                    ENABLED StoreUpload(p)
              /\ (calls[p].op = "store" /\ calls[p].pc = "create") =>
                    ENABLED StoreRecordCreate(p))
    /\ [][\A p \in Procs :
            LET c == calls[p]
                d == calls'[p]
            IN (StoreInFlight(p) /\ Stepped(p)) =>
                  /\ \A id \in DOMAIN records :
                        id \in DOMAIN records' /\ records'[id] = records[id]
                  /\ keys \subseteq keys' /\ objects \subseteq objects'
                  /\ (c.pc = "upload" /\ d.pc = "create") => c.s3Key \notin objects
                  /\ (c.pc = "create" /\ d.outcome = "ok") => d.ret \notin DOMAIN records
         ]_vars

\* Two store calls of the same content overlapped and both returned: two records
\* with the same content hash, two key rows and two blobs.
C20_Witness ==
    /\ started = 2
    /\ \A p \in Procs : calls[p].op = "store" /\ calls[p].outcome = "ok"
    /\ calls[1].ret # calls[2].ret
    /\ DOMAIN records = {1, 2}
    /\ records[1].contentHash = records[2].contentHash
    /\ records[1].s3Key # records[2].s3Key
    /\ records[1].encryptionKeyId # records[2].encryptionKeyId
    /\ Cardinality(keys) = 2 /\ Cardinality(objects) = 2

\* ------------------------------------------------------------- key rows, frames, ciphertext
\* C21: no two records ever share an encryptionKeyId, and no step of store, of
\* updateStatus (DELETED included) or of the sweep changes or removes a key row that
\* exists: a key row, once written, stays as written.
C21_KeyRowsKept ==
    /\ [](\A a \in DOMAIN records, b \in DOMAIN records :
            records[a].encryptionKeyId = records[b].encryptionKeyId => a = b)
    /\ [][\A k \in DOMAIN keyRows : k \in DOMAIN keyRows' /\ keyRows'[k] = keyRows[k]]_vars

\* One record was deleted through updateStatus and another expired by the sweep: both
\* key rows are still there, each record with its own.
C21_Witness ==
    \E a \in DOMAIN records, b \in DOMAIN records :
        /\ records[a].status = "DELETED" /\ records[a].s3Key \notin objects
        /\ records[b].status = "EXPIRED" /\ records[b].s3Key \notin objects
        /\ records[a].encryptionKeyId # records[b].encryptionKeyId
        /\ {records[a].encryptionKeyId, records[b].encryptionKeyId} \subseteq keys

\* C22: a record, once created, stays in the table under its id with its s3Key and
\* its encryptionKeyId, whatever updateStatus and the sweep do; a step of the sweep
\* changes nothing of a record but its status, and that only to EXPIRED and only for
\* the records the sweep found.
C22_IdentityImmutable ==
    [][/\ \A id \in DOMAIN records :
            /\ id \in DOMAIN records'
            /\ records'[id].s3Key = records[id].s3Key
            /\ records'[id].encryptionKeyId = records[id].encryptionKeyId
       /\ \A p \in Procs :
            (calls[p].op = "cleanup" /\ Stepped(p))
            => /\ DOMAIN records' = DOMAIN records
               /\ \A id \in DOMAIN records :
                     /\ records'[id] = [records[id] EXCEPT !.status = records'[id].status]
                     /\ records'[id] # records[id]
                        => /\ records'[id].status = "EXPIRED"
                           /\ id \in Range(calls[p].found)
      ]_vars

\* A record that a reviewer took under review and the sweep then expired: it still
\* has its storage key and its key row.
C22_Witness ==
    \E id \in DOMAIN records :
        /\ records[id].status = "EXPIRED"
        /\ records[id].reviewedBy # NULL
        /\ records[id].s3Key # NoKey
        /\ records[id].encryptionKeyId \in keys

PcRank(pc) ==
    CASE pc \in {"keyCreate", "delete", "deleteMany"} -> 1
      [] pc \in {"upload", "update", "bulkUpdate"} -> 2
      [] pc = "create" -> 3
      [] pc = "done" -> 4
      [] OTHER -> 0

BackendErrors == {"DbError", "StorageError"}

\* C24: store, updateStatus and the sweep never retry.  Every step of a call in flight
\* is one backend call and takes the handler strictly forward (a deleteMany loop goes
\* on only to its next batch), so no backend call of a handler is issued twice; a
\* backend call that fails ends the handler at once with that error, having changed
\* no table and no blob, and the steps that would have followed are no longer
\* enabled.  The same holds for the first backend call, which the start of
\* updateStatus and of the sweep issues.
C24_NoRetry ==
    /\ [](\A p \in Procs :
            calls[p].pc = "done"
            => ~ENABLED (\/ StoreKeyCreate(p) \/ StoreUpload(p) \/ StoreRecordCreate(p)
                         \/ UpdateStatusDelete(p) \/ UpdateStatusUpdate(p)
                         \/ CleanupDeleteMany(p) \/ CleanupBulkUpdate(p)))
    /\ [][\A p \in Procs :
           LET c == calls[p]
               d == calls'[p]
           IN /\ (c.pc \notin {"idle", "done"} /\ Stepped(p))
                 => /\ d.op = c.op
                    /\ \/ PcRank(d.pc) > PcRank(c.pc)
                       \/ c.pc = "deleteMany" /\ d.pc = "deleteMany" /\ d.idx > c.idx
                    /\ d.outcome \in BackendErrors
                       => /\ d.pc = "done"
                          /\ records' = records /\ keyRows' = keyRows /\ blobs' = blobs
              /\ (Begun(p) /\ d.outcome \in BackendErrors)
                 => /\ d.pc = "done"
                    /\ records' = records /\ keyRows' = keyRows /\ blobs' = blobs
         ]_vars

\* A store call failed at its upload, an updateStatus call at its blob delete and a
\* sweep at its deleteMany: each ended there.
C24_Witness ==
    /\ started = 4
    /\ \E p \in Procs :
          /\ calls[p].op = "cleanup" /\ calls[p].outcome = "StorageError"
    /\ Cardinality(keys) = 2
    /\ Cardinality(DOMAIN records) = 1
    /\ Cardinality(objects) = 1

\* ------------------------------------------------------------- the pipeline's claim
\* Request r has been through inspect's quarantine part.
Inspected(r) == ssg.reqs[r].result # <<>>

\* C30: inspect calls quarantine.store once when the verdict is QUARANTINE (and a
\* quarantine service is configured) and never otherwise.  When the store call has
\* settled, resolved or rejected, inspect goes on in the same way: it issues audit.log
\* if an audit logger is configured, changes nothing else, and returns the result it
\* had made before the store call; the middleware attaches that result and calls next
\* once, unless the verdict is BLOCK.
C30_StoreFailureNonFatal ==
    /\ [](\A r \in Reqs :
            LET q == ssg.reqs[r]
            IN Inspected(r)
               => /\ q.stores = IF ssg.config.quarantine /\ q.result[1].verdict = "QUARANTINE"
                                 THEN 1 ELSE 0
                  /\ q.result[1] = InspectionResultOf(q.score, q.result[1].timestamp)
                  /\ q.pc = "store" /\ calls[q.slot].pc = "done"
                     => ENABLED InspectAfterStore(r)
                  /\ q.pc = "audit" => ENABLED InspectAudit(r)
                  /\ q.audits <= 1
                  /\ q.audits = 1 => SsgAuditEvent(q.result[1]) \in auditLog
                  /\ q.pc = "finished"
                     => /\ q.ssgResult = q.result
                        /\ ~ssg.config.audit => q.audits = 0
                        /\ q.next = IF q.result[1].verdict = "BLOCK" /\ q.canReject
                                     THEN 0 ELSE 1
                        /\ q.stores = 1 => q.next = 1)
    /\ [][\A r \in Reqs :
           LET q == ssg.reqs[r]
               n == ssg'.reqs[r]
           IN (q.pc = "store" /\ n.pc # "store")
              => /\ n = [q EXCEPT !.pc = IF ssg.config.audit THEN "audit" ELSE "respond"]
                 /\ calls[q.slot].pc = "done"
                 /\ UNCHANGED <<serviceVars, crypto, limiter>>
         ]_vars

\* A request whose verdict was QUARANTINE and whose store call failed after the key
\* row was written: no record exists, the audit entry is written, the result is
\* attached and next was called.
C30_Witness ==
    \E r \in Reqs :
        LET q == ssg.reqs[r]
        IN /\ q.pc = "finished"
           /\ q.stores = 1
           /\ records = <<>> /\ keys # {}
           /\ q.audits = 1
           /\ SsgAuditEvent(q.result[1]) \in auditLog
           /\ q.ssgResult = <<InspectionResultOf(q.score, q.result[1].timestamp)>>
           /\ q.next = 1
           /\ \A o \in Reqs : ssg.reqs[o].stores = 1 => o = r

\* ------------------------------------------------------------- the crypto engine's claims
\* The master key of engine e is the one the i-th payload was made under.
SameMasterKey(e, i) ==
    crypto.engines[e].masterKey = crypto.engines[crypto.payloads[i].by].masterKey

\* A decrypt call has returned or thrown.
Decrypted == crypto.last.engine # 0

\* The payload the last decrypt call was given.
LastPayload == Altered(crypto.payloads[crypto.last.of].payload, crypto.last.altered)

\* The DEK unwrap step of the last decrypt call.
LastUnwrap ==
    GcmOpen(crypto.engines[crypto.last.engine].masterKey,
            LastPayload.dekIv, LastPayload.encryptedDek, LastPayload.dekAuthTag)

\* C25: for every plaintext, the empty one included, and every valid master key,
\* decrypt of an unaltered payload by an engine that has the master key it was
\* encrypted under returns exactly the plaintext.
C25_RoundTrip ==
    (Decrypted /\ crypto.last.altered = "none"
        /\ SameMasterKey(crypto.last.engine, crypto.last.of))
    => crypto.last.result = [ok |-> TRUE, data |-> crypto.plaintext]

\* The empty plaintext, encrypted by one engine and decrypted by the other, which was
\* made from the same master key.
C25_Witness ==
    /\ Decrypted
    /\ crypto.last.altered = "none"
    /\ crypto.plaintext = Bytes(<<>>)
    /\ crypto.last.engine # crypto.payloads[crypto.last.of].by
    /\ crypto.last.result = [ok |-> TRUE, data |-> Bytes(<<>>)]

\* C26: with one byte of ciphertext, authTag, encryptedDek or dekAuthTag altered,
\* decrypt throws and returns no bytes at all.  An altered encryptedDek or dekAuthTag
\* is caught by the DEK unwrap; an altered ciphertext or authTag passes the unwrap
\* (under the right master key) and is caught by the content check.
C26_TamperFailsClosed ==
    (Decrypted /\ crypto.last.altered \in PayloadFields)
    => /\ crypto.last.result = DecryptionFailed
       /\ crypto.last.altered \in {"encryptedDek", "dekAuthTag"} => ~LastUnwrap.ok
       /\ (crypto.last.altered \in {"ciphertext", "authTag"}
              /\ SameMasterKey(crypto.last.engine, crypto.last.of))
          => /\ LastUnwrap.ok
             /\ ~GcmOpen(LastUnwrap.data, LastPayload.iv, LastPayload.ciphertext,
                          LastPayload.authTag).ok

\* A payload of a non-empty plaintext whose ciphertext was altered, given to the
\* engine that made it.
C26_Witness ==
    /\ Decrypted
    /\ crypto.last.altered = "ciphertext"
    /\ crypto.plaintext = Bytes(<<104, 105>>)
    /\ crypto.last.engine = crypto.payloads[crypto.last.of].by
    /\ LastUnwrap.ok
    /\ ~crypto.last.result.ok

\* C27: decrypt by an engine whose master key differs from the one the payload was
\* encrypted under throws and returns no bytes.
C27_WrongMasterKeyFails ==
    (Decrypted /\ ~SameMasterKey(crypto.last.engine, crypto.last.of))
    => crypto.last.result = DecryptionFailed

\* An unaltered payload given to an engine with another valid master key.
C27_Witness ==
    /\ Decrypted
    /\ crypto.last.altered = "none"
    /\ ~SameMasterKey(crypto.last.engine, crypto.last.of)
    /\ crypto.engines[crypto.last.engine].state = "ready"
    /\ ~crypto.last.result.ok

\* C28: createEncryptionService throws exactly when the decoded master key is not 32
\* bytes long (the empty key included); after a throw there is no engine to call
\* encrypt or decrypt on; an engine that was made holds the decoded key as it is.
C28_KeyLengthChecked ==
    \A e \in Engines :
        LET masterKey == Base64Decode(crypto.keyInputs[e])
        IN /\ crypto.engines[e].state = "ready"
              => /\ masterKey.len = 32
                 /\ crypto.engines[e].masterKey = masterKey
           /\ crypto.engines[e].state = "error"
              => /\ masterKey.len # 32
                 /\ ~ENABLED EncryptCall(e)
                 /\ ~ENABLED (\E i \in 1..MaxEncrypts, field \in PayloadFields \cup {"none"} :
                                 DecryptCall(e, i, field))
                 /\ \A i \in DOMAIN crypto.payloads : crypto.payloads[i].by # e
                 /\ crypto.last.engine # e
           /\ crypto.engines[e].state = "none"
              => ENABLED CreateEncryptionService(e)

\* The empty key and a 33-byte key were rejected.
C28_Witness ==
    /\ crypto.engines[1].state = "error"
    /\ crypto.keyInputs[1].chars = 0
    /\ crypto.engines[2].state = "error"
    /\ crypto.keyInputs[2].chars = 44

\* The DEK a payload was encrypted under.
DekOf(payload) == payload.encryptedDek.x

\* The IVs of a payload.
IvsOf(payload) == {payload.iv, payload.dekIv}

\* No DEK and no IV of one payload is used in the other, and the two IVs of a payload
\* differ.
FreshDraws(a, b) ==
    /\ DekOf(a) # DekOf(b)
    /\ IvsOf(a) \cap IvsOf(b) = {}
    /\ a.iv # a.dekIv
    /\ b.iv # b.dekIv

OnlyCalls ==
    /\ records' = records /\ keyRows' = keyRows /\ blobs' = blobs
    /\ auditLog' = auditLog

\* C31: executeBotAction goes on to updateStatus only for a record that exists and
\* that getMetadata shows QUARANTINED, and in every other case returns success = false
\* at once; the step that decides changes no record, blob or audit entry, and a call
\* that was refused takes no further step.  For a QUARANTINED record and a valid
\* request it asks for RELEASED on release, DELETED on delete and UNDER_REVIEW on
\* escalate, with the bot id as reviewer.
C31_BotOnlyOnQuarantined ==
    /\ [](\A id \in DOMAIN records, action \in {"release", "delete", "escalate"},
             reason \in ReasonInputs \cap VALID_BOT_REASONS,
             confidence \in {k \in ConfidenceInputs : k >= 0 /\ k <= 10} :
            records[id].status = "QUARANTINED"
            => LET d == BotDecide([IdleCall EXCEPT !.op = "bot"], id, action, reason,
                                  confidence)
               IN /\ d.pc = "find" /\ d.id = id /\ d.by = BotId
                  /\ d.status = CASE action = "release" -> "RELEASED"
                                  [] action = "delete" -> "DELETED"
                                  [] action = "escalate" -> "UNDER_REVIEW")
    /\ [][\A p \in Procs :
           LET c == calls[p]
               d == calls'[p]
           IN /\ (Begun(p) /\ d.op = "bot")
                 => /\ OnlyCalls
                    /\ \/ d.pc = "done" /\ d.outcome \in {"refused", "DbError"}
                       \/ /\ d.pc = "find" /\ d.by = BotId
                          /\ d.id \in DOMAIN records
                          /\ records[d.id].status = "QUARANTINED"
                          /\ d.status \in {"RELEASED", "DELETED", "UNDER_REVIEW"}
              /\ (c.op = "bot" /\ c.pc = "done" /\ Stepped(p)) => Begun(p)
         ]_vars

\* A bot asked to act on a record under review and was refused, with the record's
\* status as newStatus.
C31_Witness ==
    \E p \in Procs :
        /\ calls[p].op = "bot" /\ calls[p].outcome = "refused"
        /\ calls[p].status = "UNDER_REVIEW"
        /\ \E id \in DOMAIN records :
              records[id].status = "UNDER_REVIEW" /\ records[id].reviewedBy = BotId

\* C32: executeHumanAction goes on to updateStatus only for a record that exists and
\* that getMetadata shows QUARANTINED or UNDER_REVIEW, and only to make it RELEASED or
\* DELETED; in every other case it returns success = false at once.  The step that
\* decides changes no record, blob or audit entry, and a call that was refused takes
\* no further step.  For a QUARANTINED or UNDER_REVIEW record, release and delete are
\* accepted with the admin id as reviewer, and escalate and view are refused.
C32_HumanOnlyOnActive ==
    /\ [](\A id \in DOMAIN records, action \in ActionInputs, notes \in NoteTexts :
            records[id].status \in {"QUARANTINED", "UNDER_REVIEW"}
            => LET d == HumanDecide([IdleCall EXCEPT !.op = "human"], id, action, notes)
               IN IF action \in {"release", "delete"}
                  THEN /\ d.pc = "find" /\ d.id = id /\ d.by = AdminId
                       /\ d.status = IF action = "release" THEN "RELEASED" ELSE "DELETED"
                  ELSE d.pc = "done" /\ d.outcome = "refused")
    /\ [][\A p \in Procs :
           LET c == calls[p]
               d == calls'[p]
           IN /\ (Begun(p) /\ d.op = "human")
                 => /\ OnlyCalls
                    /\ \/ d.pc = "done" /\ d.outcome \in {"refused", "DbError"}
                       \/ /\ d.pc = "find" /\ d.by = AdminId
                          /\ d.id \in DOMAIN records
                          /\ records[d.id].status \in {"QUARANTINED", "UNDER_REVIEW"}
                          /\ d.status \in {"RELEASED", "DELETED"}
              /\ (c.op = "human" /\ c.pc = "done" /\ Stepped(p)) => Begun(p)
         ]_vars

\* A human admin asked to act on an expired record and was refused, with EXPIRED as
\* newStatus.
C32_Witness ==
    \E p \in Procs :
        /\ calls[p].op = "human" /\ calls[p].outcome = "refused"
        /\ calls[p].status = "EXPIRED"

\* C33: every status change of the moderation workflow is in the audit log: whenever
\* executeBotAction or executeHumanAction ends after its updateStatus has written the
\* new status, the matching event (BOT_RELEASE, BOT_DELETE, BOT_ESCALATE,
\* HUMAN_RELEASE or HUMAN_DELETE for that actor and record) is in the log.
C33_StatusChangeAudited ==
    [][\A p \in Procs :
          (calls[p].op \in {"bot", "human"} /\ calls[p].pc = "audit"
              /\ calls'[p].pc = "done")
          => AuditEventOf(calls[p]) \in auditLog'
      ]_vars

HiddenFields ==
    {"s3Key", "encryptionKeyId", "contentHash", "sizeBytes",
     "reviewedBy", "reviewedAt", "reviewNotes"}

\* The row with the fields F replaced by those of another row.
WithHidden(row, other, F) ==
    [f \in DOMAIN row |-> IF f \in F THEN other[f] ELSE row[f]]

\* Values of the hidden fields that no stored record has.
OtherHidden ==
    [s3Key |-> <<-1, -1>>, encryptionKeyId |-> -1, contentHash |-> <<"other">>,
     sizeBytes |-> -1, reviewedBy |-> "someone", reviewedAt |-> -2,
     reviewNotes |-> "other notes"]

\* C35: bots never get access to stored content.  No call of getQueue or
\* executeBotAction is ever at a step of generateSignedUrl or holds a signed URL; and
\* the envelope of a record does not change when its s3Key, encryptionKeyId,
\* contentHash, sizeBytes or review fields are replaced, one at a time or all at once,
\* by values no record has, or all at once by those of another record.
C35_BotsSeeNoContent ==
    /\ \A p \in Procs :
          calls[p].op \in {"getQueue", "bot"}
          => calls[p].pc \notin {"urlFind", "sign"} /\ calls[p].url = <<>>
    /\ \A i \in DOMAIN records :
          LET row == RowOf(i)
              envelope == BuildEnvelope(row, <<>>)
          IN /\ \A F \in {{f} : f \in HiddenFields} \cup {HiddenFields} :
                   BuildEnvelope(WithHidden(row, OtherHidden, F), <<>>) = envelope
             /\ \A j \in DOMAIN records :
                   BuildEnvelope(WithHidden(row, RowOf(j), HiddenFields), <<>>) = envelope

\* A bot has reviewed one record and a getQueue call returned the envelope of another.
C35_Witness ==
    /\ \E i \in DOMAIN records : records[i].reviewedBy = BotId
    /\ \E p \in Procs :
          /\ calls[p].op = "getQueue" /\ calls[p].outcome = "ok"
          /\ Len(calls[p].found) = 1
          /\ \E j \in DOMAIN records :
                calls[p].found[1] = BuildEnvelope(RowOf(j), <<>>)

\* C36: check reports the status without counting the call: no step of a check call
\* changes how many requests the minute and the hour window of its agent and tier
\* hold.
C36_CheckLeavesCounters ==
    [][\A r \in Checks :
          limiter'.reqs[r] # limiter.reqs[r]
          => \A w \in {"minute", "hour"} :
                LET key == BuildKey(limiter'.reqs[r].agentId, limiter'.reqs[r].tier, w)
                IN ZCount(limiter'.zsets[key], limiter'.clock - WindowOf(w),
                          limiter'.clock)
                      = ZCount(limiter.zsets[key], limiter.clock - WindowOf(w),
                               limiter.clock)
      ]_vars

\* The keys of a sequence of requests, in the order sent.
RECURSIVE Flatten(_)
Flatten(requests) ==
    IF requests = <<>> THEN <<>> ELSE Head(requests) \o Flatten(Tail(requests))

\* The number of requests that n keys take.
RequestsFor(n) == (n + batchSize - 1) \div batchSize

\* C37: deleteMany(keys) sends the keys in requests of at most 1000: the requests sent
\* so far hold, in order and each key once, a prefix of the list; a call that resolved
\* has sent the whole list in ceil(n / 1000) requests, none for an empty list; a call
\* whose request failed rejects, having sent fewer requests than that, and takes no
\* further step; each request removes exactly its keys from the bucket, and the keys
\* of the requests that resolved stay removed.
C37_DeleteManyChunks ==
    /\ [](\A p \in Procs :
            LET c == calls[p]
                sent == Flatten(c.row)
            IN c.op = "deleteMany"
               => /\ \A k \in 1..Len(c.row) :
                        Len(c.row[k]) >= 1 /\ Len(c.row[k]) <= 1000
                  /\ sent = SubSeq(c.found, 1, Len(sent))
                  /\ c.pc = "deleteObjects" => Len(c.row) < RequestsFor(Len(c.found))
                  /\ c.outcome = "ok"
                     => sent = c.found /\ Len(c.row) = RequestsFor(Len(c.found))
                  /\ c.outcome = "StorageError" => Len(c.row) < RequestsFor(Len(c.found))
                  /\ \A k \in 1..Len(sent) : sent[k] \notin DOMAIN blobs)
    /\ [][\A p \in Procs :
           LET c == calls[p]
               d == calls'[p]
           IN (c.op = "deleteMany" /\ Stepped(p))
              => /\ c.pc = "done" => Begun(p)
                 /\ c.pc = "deleteObjects"
                    => \/ /\ d.outcome = "StorageError" /\ d.row = c.row
                          /\ blobs' = blobs
                       \/ /\ Len(d.row) = Len(c.row) + 1
                          /\ blobs' = Without(blobs, Range(d.row[Len(d.row)]))
         ]_vars

\* One call has deleted 2001 keys in three requests; another was given 1001 keys and
\* failed at its second request.
C37_Witness ==
    \E p, q \in Procs :
        /\ calls[p].op = "deleteMany" /\ calls[p].outcome = "ok"
        /\ Len(calls[p].found) = 2001 /\ Len(calls[p].row) = 3
        /\ calls[q].op = "deleteMany" /\ calls[q].outcome = "StorageError"
        /\ Len(calls[q].found) = 1001 /\ Len(calls[q].row) = 1

\* No operation is in progress.
Quiescent == \A p \in Procs : calls[p].pc \in {"idle", "done"}

\* C38: with records changed only through store, the moderation workflow and sweeps,
\* and every backend call resolving, whenever no operation is in progress every
\* QUARANTINED, UNDER_REVIEW or RELEASED record has its blob in the object store.
C38_LiveRecordsHaveBlob ==
    Quiescent
    => \A id \in DOMAIN records :
          records[id].status \in {"QUARANTINED", "UNDER_REVIEW", "RELEASED"}
          => records[id].s3Key \in DOMAIN blobs

Swept(found) ==
    \A k \in 1..Len(found) :
        /\ records[found[k]].status = "EXPIRED"
        /\ records[found[k]].s3Key \notin DOMAIN blobs

\* C40: sweeps that run concurrently, over the same expired records or not, all
\* complete without error when no backend call fails, and together do what one sweep
\* does.  A sweep in flight can always take its next step and ends by returning its
\* count; its batch delete removes the blobs of the records it found and no other
\* blob, and changes no record; its bulk update makes exactly the records it found
\* EXPIRED, whose blobs are then gone, and changes nothing else; and once the records
\* it found have been swept by another sweep, its own steps change no record and no
\* blob.
C40_ConcurrentSweeps ==
    /\ [](\A p \in Procs :
            calls[p].op = "cleanup"
            => /\ calls[p].pc = "deleteMany" => ENABLED CleanupDeleteMany(p)
               /\ calls[p].pc = "bulkUpdate" => ENABLED CleanupBulkUpdate(p)
               /\ calls[p].pc = "done" => calls[p].outcome = "ok")
    /\ [][\A p \in Procs :
           LET c == calls[p]
               d == calls'[p]
               F == Range(c.found)
           IN (c.op = "cleanup" /\ Stepped(p) /\ c.pc # "done")
              => /\ c.pc = "deleteMany"
                    => /\ records' = records
                       /\ blobs' = Without(blobs, {records[id].s3Key : id \in F})
                       /\ d.pc = "bulkUpdate"
                 /\ c.pc = "bulkUpdate"
                    => /\ blobs' = blobs
                       /\ records' = [id \in DOMAIN records |->
                                         IF id \in F
                                         THEN [records[id] EXCEPT !.status = "EXPIRED"]
                                         ELSE records[id]]
                       /\ \A id \in F : records[id].s3Key \notin DOMAIN blobs
                       /\ d.pc = "done" /\ d.outcome = "ok" /\ d.ret = Len(c.found)
                 /\ Swept(c.found) => records' = records /\ blobs' = blobs
         ]_vars

\* Two sweeps found the same record; one has returned, and the other, still at its
\* bulk update, finds that record swept.
C40_Witness ==
    \E p, q \in Procs :
        /\ calls[p].op = "cleanup" /\ calls[p].outcome = "ok" /\ calls[p].ret >= 1
        /\ calls[q].op = "cleanup" /\ calls[q].pc = "bulkUpdate"
        /\ calls[q].at <= calls[p].at + 1
        /\ Len(calls[q].found) = calls[p].ret
        /\ Swept(calls[q].found)
        /\ \E id \in DOMAIN records : records[id].status = "QUARANTINED"

====
